---- MODULE Spec2Model ----
(***************************************************************************)
(* State-machine model of the feeby component library: the theme provider  *)
(* with its browser-storage mirror, the seed intervals of the "bouncy"     *)
(* components, the stroke list and the canvas size of the DoodlePad, the   *)
(* StickyTape, the StickyNote with its folded corner, the JourneyLine, and *)
(* the utility functions mergeStyles and colorUtils.                       *)
(*                                                                         *)
(* React is modelled by what it does to the components' state: a state     *)
(* hook holds a value, a render captures the values its closures see, an   *)
(* effect runs after the render that scheduled it, and an effect's cleanup *)
(* runs before its next run and at unmount.                                *)
(***************************************************************************)
EXTENDS Integers, Sequences, FiniteSets, TLC

(***************************************************************************)
(* State                                                                   *)
(***************************************************************************)

\* FeebyThemeProvider and the browser's localStorage
VARIABLES
    provMounted,      \* the provider is mounted
    defaultThemeProp, \* the defaultTheme prop of the current mount
    storageKey,       \* the storageKey prop of the last render
    theme,            \* the value of the theme state hook
    ctxTheme,         \* the theme captured by the last render (context value, closures)
    loadPending,      \* the load effect is scheduled and has not run yet
    storage,          \* localStorage: key -> stored value
    called,           \* history: setTheme/toggleTheme was called since mount or key change
    lastSet,          \* history: key -> last theme passed to setTheme under that key
    toggleRun         \* history: the current run of consecutive toggleTheme calls

themeVars == <<provMounted, defaultThemeProp, storageKey, theme, ctxTheme,
               loadPending, storage, called, lastSet, toggleRun>>

\* The browser's registries and the components that register in them
VARIABLES
    timers,        \* browser: registered intervals, [id, owner, period]
    observers,     \* browser: ResizeObservers that observe an element, [id, owner]
    listeners,     \* browser: window 'resize' listeners, [id, owner]
    tapeMounted,   \* Tape: mounted
    tapeBouncy,    \* Tape: the isBouncy prop
    tapeSeed,      \* Tape: the seed state
    tapeInterval,  \* Tape: the interval its pending cleanup will clear (NoHandle: no cleanup)
    tapeDraws,     \* Tape: number of runs of the draw effect on this instance
    pinMounted,    \* PinnedNote: mounted
    pinSeed,       \* PinnedNote: the seed state
    pinInterval,   \* PinnedNote: the interval its cleanup will clear
    bgMounted,     \* SketchyBackground: mounted
    bgBouncy,      \* SketchyBackground: the isBouncy prop
    bgObserver,    \* SketchyBackground: the observer its cleanup will disconnect
    bgInterval,    \* SketchyBackground: the interval its cleanup will clear (NoHandle: null)
    boxMounted,    \* TapedBox: mounted
    boxListener    \* TapedBox: the updateSize function its cleanup will remove

timerVars == <<timers, observers, listeners,
               tapeMounted, tapeBouncy, tapeSeed, tapeInterval, tapeDraws,
               pinMounted, pinSeed, pinInterval,
               bgMounted, bgBouncy, bgObserver, bgInterval,
               boxMounted, boxListener>>

\* DoodlePad
VARIABLES
    strictMode,     \* the pad is rendered inside <React.StrictMode>
    padStrokes,     \* the strokes state: sequence of [points, mode]
    padIsDrawing,   \* the isDrawing state
    padMode,        \* the mode state
    padCrashed,     \* an updater threw: React has torn the component down
    padLastEvent,   \* history: the last event handled
    padCallbackArgs \* history: arguments of the onStrokesChange calls made for the last event

padVars == <<strictMode, padStrokes, padIsDrawing, padMode, padCrashed, padLastEvent,
             padCallbackArgs>>

\* DoodlePad: the canvas size
VARIABLES
    szMounted,    \* the pad is mounted
    szWidth,      \* the width prop (Omitted: not given)
    szHeight,     \* the height prop (Omitted: not given)
    szContainer,  \* the width of the container element
    szSize,       \* the size state, [width, height]: the canvas' width and height attributes
    szObserving   \* a ResizeObserver of this pad observes the container

sizeVars == <<szMounted, szWidth, szHeight, szContainer, szSize, szObserving>>

\* StickyTape
VARIABLES
    stMounted,    \* mounted
    stColor,      \* the color prop of the last render ("undefined": not provided)
    stBouncy,     \* the isBouncy prop
    stTapeColor,  \* the tapeColor state
    stSeed,       \* the seed state
    stDrawn       \* fill and stroke of the rectangle in the SVG ("none": SVG empty)

stickyVars == <<stMounted, stColor, stBouncy, stTapeColor, stSeed, stDrawn>>

\* colorUtils.darken / colorUtils.lighten: one call
VARIABLES
    cuHex,      \* the hex argument: a sequence of characters (hex digits by value, Hash for '#')
    cuPercent,  \* the percent argument
    cuOp,       \* the function called ("none": not called yet)
    cuOut       \* the string returned, without its leading '#'

colorVars == <<cuHex, cuPercent, cuOp, cuOut>>

\* mergeStyles and the objects its callers hold
VARIABLES
    msHeap,    \* the style objects alive: object identity -> its properties
    msArgs,    \* the arguments of the last call, as identities ("undefined": undefined)
    msResult   \* the identity of the object the last call returned ("none": no call yet)

mergeVars == <<msHeap, msArgs, msResult>>

\* StickyNote with its FoldedCorner child
VARIABLES
    snMounted,   \* mounted
    snCorner,    \* the foldedCorner prop of the last render
    snFoldSize,  \* the foldSize prop of the last render: <<n>>, or <<>> when undefined
    snActual,    \* the actualFoldSize state
    snShown,     \* the actualFoldSize the last render saw (closures, FoldedCorner's size)
    snEffects,   \* the passive effects scheduled by the last render and not run yet
    snSvg,       \* the paths in the note's SVG, in order
    snFold,      \* the FoldedCorner child: <<[corner, size, at, svg]>>, or <<>> when not rendered
    snPainted    \* history: what the last paint showed, <<[svg, fold]>> (<<>>: no paint
                 \* since the mount or the last change of the props)

noteVars == <<snMounted, snCorner, snFoldSize, snActual, snShown, snEffects,
              snSvg, snFold, snPainted>>

\* JourneyLine
VARIABLES
    jlMounted,  \* mounted
    jlPoints,   \* the points prop of the last render
    jlSvg       \* the paths in the SVG, in order

journeyVars == <<jlMounted, jlPoints, jlSvg>>


\* TapedBox size measurement (TapedBox.tsx, the effect on [width, height])
VARIABLES
    tbMounted,      \* a TapedBox instance is mounted
    tbRef,          \* ref.current of the newest instance: its div, or NoElement
    tbSize,         \* the size state of the newest instance
    tbListening,    \* updateSize is registered for window 'resize'
    tbFrames,       \* animation frames requested by the mounted instance, not yet fired
    tbStaleFrames,  \* animation frames requested by instances that are unmounted now
    tbLastEvent,    \* the last step taken
    tbLateUpdates   \* setSize calls made on an instance after its unmount

boxVars == <<tbMounted, tbRef, tbSize, tbListening, tbFrames, tbStaleFrames,
             tbLastEvent, tbLateUpdates>>


\* The SVG of a Tape, a SketchyRectangle or a StickyTape (their draw effects)
VARIABLES
    svKind,       \* the component that is mounted, or "none"
    svProps,      \* its width, height, borderRadius and strokeWidth props
    svTheme,      \* the theme useFeebyTheme gives it
    svTapeColor,  \* StickyTape: the tapeColor state
    svSeed,       \* its seed state
    svChildren    \* the children of its <svg>, in document order

svgVars == <<svKind, svProps, svTheme, svTapeColor, svSeed, svChildren>>


\* The SVG of a SketchyBackground (SketchyBackground.tsx, draw)
VARIABLES
    bkMounted,    \* a SketchyBackground is mounted
    bkBouncy,     \* its isBouncy prop
    bkColor,      \* its color prop, "" when omitted
    bkTheme,      \* the theme useFeebyTheme gives it
    bkClient,     \* <<clientWidth, clientHeight>> of its <svg>
    bkObserved,   \* the ResizeObserver has a size to report
    bkChildren,   \* the children of its <svg>, in document order
    bkLastEvent   \* the last step taken

backgroundVars == <<bkMounted, bkBouncy, bkColor, bkTheme, bkClient, bkObserved,
                    bkChildren, bkLastEvent>>


\* The logo circle of a StickyNote (StickyNote.tsx, the effect on [seed])
VARIABLES
    lgMounted,    \* a StickyNote is mounted
    lgLogo,       \* its logoComponent prop is given: the logo <svg> is rendered
    lgBouncy,     \* its isBouncy prop
    lgSeed,       \* its seed state
    lgChildren,   \* the children of the logo <svg>, <<>> when there is no logo <svg>
    lgLastEvent   \* the last step taken

logoVars == <<lgMounted, lgLogo, lgBouncy, lgSeed, lgChildren, lgLastEvent>>


\* A component that calls useFeebyTheme outside every FeebyThemeProvider
VARIABLES
    csMounted,    \* the component is mounted
    csTheme,      \* the theme its last render read, "none" before the first
    csStorage,    \* localStorage: storage key -> stored value
    csCalls,      \* number of setTheme and toggleTheme calls it has made
    csLastCall    \* the last of these calls

consumerVars == <<csMounted, csTheme, csStorage, csCalls, csLastCall>>

vars == <<themeVars, timerVars, padVars, sizeVars, stickyVars, colorVars,
          mergeVars, noteVars, journeyVars, boxVars, svgVars, backgroundVars,
          logoVars, consumerVars>>

\* What the actions of one part leave unchanged: the variables of the other parts.
exceptTheme == <<timerVars, padVars, sizeVars, stickyVars, colorVars,
                 mergeVars, noteVars, journeyVars, boxVars, svgVars,
                 backgroundVars, logoVars, consumerVars>>
exceptTimers == <<themeVars, padVars, sizeVars, stickyVars, colorVars,
                  mergeVars, noteVars, journeyVars, boxVars, svgVars,
                  backgroundVars, logoVars, consumerVars>>
exceptPad == <<themeVars, timerVars, sizeVars, stickyVars, colorVars,
               mergeVars, noteVars, journeyVars, boxVars, svgVars,
               backgroundVars, logoVars, consumerVars>>
exceptSize == <<themeVars, timerVars, padVars, stickyVars, colorVars,
                mergeVars, noteVars, journeyVars, boxVars, svgVars,
                backgroundVars, logoVars, consumerVars>>
exceptSticky == <<themeVars, timerVars, padVars, sizeVars, colorVars,
                  mergeVars, noteVars, journeyVars, boxVars, svgVars,
                  backgroundVars, logoVars, consumerVars>>
exceptColor == <<themeVars, timerVars, padVars, sizeVars, stickyVars,
                 mergeVars, noteVars, journeyVars, boxVars, svgVars,
                 backgroundVars, logoVars, consumerVars>>
exceptMerge == <<themeVars, timerVars, padVars, sizeVars, stickyVars,
                 colorVars, noteVars, journeyVars, boxVars, svgVars,
                 backgroundVars, logoVars, consumerVars>>
exceptNote == <<themeVars, timerVars, padVars, sizeVars, stickyVars,
                colorVars, mergeVars, journeyVars, boxVars, svgVars,
                backgroundVars, logoVars, consumerVars>>
exceptJourney == <<themeVars, timerVars, padVars, sizeVars, stickyVars,
                   colorVars, mergeVars, noteVars, boxVars, svgVars,
                   backgroundVars, logoVars, consumerVars>>
exceptBox == <<themeVars, timerVars, padVars, sizeVars, stickyVars,
               colorVars, mergeVars, noteVars, journeyVars, svgVars,
               backgroundVars, logoVars, consumerVars>>
exceptSvg == <<themeVars, timerVars, padVars, sizeVars, stickyVars,
               colorVars, mergeVars, noteVars, journeyVars, boxVars,
               backgroundVars, logoVars, consumerVars>>
exceptBackground == <<themeVars, timerVars, padVars, sizeVars, stickyVars,
                      colorVars, mergeVars, noteVars, journeyVars, boxVars,
                      svgVars, logoVars, consumerVars>>
exceptLogo == <<themeVars, timerVars, padVars, sizeVars, stickyVars,
                colorVars, mergeVars, noteVars, journeyVars, boxVars,
                svgVars, backgroundVars, consumerVars>>
exceptConsumer == <<themeVars, timerVars, padVars, sizeVars, stickyVars,
                    colorVars, mergeVars, noteVars, journeyVars, boxVars,
                    svgVars, backgroundVars, logoVars>>

(***************************************************************************)
(* FeebyThemeProvider                                                      *)
(***************************************************************************)

\* type Theme = 'light' | 'dark'
Theme == {"light", "dark"}

\* Values of the storageKey prop: the default key and a custom one.
StorageKeys == {"feeby-theme", "my-app-theme"}

\* What localStorage.getItem can return: null, or any string.
StoredValues == {"null", "light", "dark", "system"}

\* Values of the defaultTheme prop: omitted, or a theme.
DefaultThemeProps == {"omitted", "light", "dark"}


NoRun == [start |-> "none", odd |-> FALSE]

\* defaultTheme = 'light' in the destructured props
DefaultTheme(prop) == IF prop = "omitted" THEN "light" ELSE prop

\* The load effect's choice: the stored value when it is a theme, else the state as it is.
LoadedThemeUnchecked(stored, current) == IF stored # "null" THEN stored ELSE current
LoadedThemeResetsInvalid(stored, current) ==
    IF stored = "light" \/ stored = "dark" THEN stored ELSE "light"
LoadedThemeIgnoresStorage(stored, current) == current
LoadedTheme(stored, current) ==
    IF stored = "light" \/ stored = "dark" THEN stored ELSE current

\* localStorage.setItem(storageKey, newTheme)
StoredAfterSetDefaultKey(store, key, newTheme) ==
    [store EXCEPT !["feeby-theme"] = newTheme]
StoredAfterSet(store, key, newTheme) == [store EXCEPT ![key] = newTheme]

\* toggleTheme's argument to setTheme, computed from the theme its closure captured
Toggled(captured, current) == IF captured = "light" THEN "dark" ELSE "light"

\* Mounting: useState(defaultTheme), first render, load effect scheduled.
MountProvider(d, k) ==
    /\ ~provMounted
    /\ provMounted' = TRUE
    /\ defaultThemeProp' = d
    /\ storageKey' = k
    /\ theme' = DefaultTheme(d)
    /\ ctxTheme' = DefaultTheme(d)
    /\ loadPending' = TRUE
    /\ called' = FALSE
    /\ toggleRun' = NoRun
    /\ UNCHANGED <<storage, lastSet>>
    /\ UNCHANGED exceptTheme

\* Unmounting (page unload): the state is discarded, the storage stays.
UnmountProvider ==
    /\ provMounted
    /\ provMounted' = FALSE
    /\ loadPending' = FALSE
    /\ called' = FALSE
    /\ toggleRun' = NoRun
    /\ UNCHANGED <<defaultThemeProp, storageKey, theme, ctxTheme, storage, lastSet>>
    /\ UNCHANGED exceptTheme

\* A render with a new storageKey prop: the effect's dependency changed.
ChangeStorageKey(k) ==
    /\ provMounted
    /\ k # storageKey
    /\ storageKey' = k
    /\ ctxTheme' = theme
    /\ loadPending' = TRUE
    /\ called' = FALSE
    /\ toggleRun' = NoRun
    /\ UNCHANGED <<provMounted, defaultThemeProp, theme, storage, lastSet>>
    /\ UNCHANGED exceptTheme

\* useEffect(() => { stored = getItem(storageKey); if theme, setThemeState(stored) }, [storageKey])
LoadEffect ==
    /\ provMounted
    /\ loadPending
    /\ theme' = LoadedTheme(storage[storageKey], theme)
    /\ loadPending' = FALSE
    /\ toggleRun' = NoRun
    /\ UNCHANGED <<provMounted, defaultThemeProp, storageKey, ctxTheme, storage,
                   called, lastSet>>
    /\ UNCHANGED exceptTheme

\* React re-renders the provider: closures and the context value see the state.
RenderProvider ==
    /\ provMounted
    /\ ctxTheme # theme
    /\ ctxTheme' = theme
    /\ UNCHANGED <<provMounted, defaultThemeProp, storageKey, theme, loadPending,
                   storage, called, lastSet, toggleRun>>
    /\ UNCHANGED exceptTheme

\* const setTheme = (newTheme) => { setThemeState(newTheme); localStorage.setItem(...) }
setTheme(newTheme) ==
    /\ theme' = newTheme
    /\ storage' = StoredAfterSet(storage, storageKey, newTheme)
    /\ lastSet' = [lastSet EXCEPT ![storageKey] = newTheme]
    /\ called' = TRUE
    /\ UNCHANGED <<provMounted, defaultThemeProp, storageKey, ctxTheme, loadPending>>
    /\ UNCHANGED exceptTheme

\* A consumer calls setTheme(t).
CallSetTheme(t) ==
    /\ provMounted
    /\ setTheme(t)
    /\ toggleRun' = NoRun

\* const toggleTheme = () => { setTheme(theme === 'light' ? 'dark' : 'light') }
toggleTheme ==
    /\ provMounted
    /\ setTheme(Toggled(ctxTheme, theme))
    /\ toggleRun' = IF toggleRun.start = "none"
                    THEN [start |-> theme, odd |-> TRUE]
                    ELSE [toggleRun EXCEPT !.odd = ~@]

NextTheme ==
    \/ \E d \in DefaultThemeProps, k \in StorageKeys : MountProvider(d, k)
    \/ UnmountProvider
    \/ \E k \in StorageKeys : ChangeStorageKey(k)
    \/ LoadEffect
    \/ RenderProvider
    \/ \E t \in Theme : CallSetTheme(t)
    \/ toggleTheme

(***************************************************************************)
(* Seed intervals, resize observers and resize listeners                   *)
(*                                                                         *)
(* Tape stands for the components that share its seed effect line for line *)
(* (Tape, SketchyRectangle, StickyTape, StickyNote, FoldedCorner,           *)
(* ThumbTack, BulletinBoard, BinderPaper, PaperAirplane).  A commit (render *)
(* of new props or state, cleanups, effects) is one step.                   *)
(***************************************************************************)

\* Largest seed the model lets a component reach.
MaxSeed == 3
\* Number of timer, observer and listener handles the browser can hand out at once.
MaxHandles == 4

Handles == 1..MaxHandles
NoHandle == 0


\* A handle the browser has not handed out in the registry `reg`.
FreeHandles(reg) == {h \in Handles : \A r \in reg : r.id # h}
NewHandle(reg) == CHOOSE h \in FreeHandles(reg) : \A g \in FreeHandles(reg) : h <= g

\* setInterval(callback, period) / clearInterval(id)
setInterval(reg, id, owner, period) ==
    reg \cup {[id |-> id, owner |-> owner, period |-> period]}
clearInterval(reg, id) == {r \in reg : r.id # id}

\* new ResizeObserver(cb).observe(el) / observer.disconnect();
\* window.addEventListener('resize', fn) / window.removeEventListener('resize', fn)
Register(reg, id, owner) == reg \cup {[id |-> id, owner |-> owner]}
Unregister(reg, id) == {r \in reg : r.id # id}

OwnedBy(reg, owner) == {r \in reg : r.owner = owner}

----------------------------------------------------------------------------
\* Tape (and the components sharing its seed effect)

\* The seed effect's body: if (isBouncy) { interval = setInterval(..., 150); return cleanup }
TapeSeedPeriod == 150
TapeEffectAlways(reg, bouncy) ==
    [timers |-> setInterval(reg, NewHandle(reg), "Tape", TapeSeedPeriod),
     interval |-> NewHandle(reg)]
TapeEffect(reg, bouncy) ==
    IF bouncy
    THEN [timers |-> setInterval(reg, NewHandle(reg), "Tape", TapeSeedPeriod),
          interval |-> NewHandle(reg)]
    ELSE [timers |-> reg, interval |-> NoHandle]

\* The seed effect's cleanup: () => clearInterval(interval)
TapeCleanupMissing(reg, interval) == reg
TapeCleanup(reg, interval) ==
    IF interval = NoHandle THEN reg ELSE clearInterval(reg, interval)

\* The interval callback's updater: (prevSeed) => prevSeed + 1
TapeNextSeed(prevSeed) == prevSeed + 1

\* The draw effect runs after a commit when one of its dependencies changed;
\* of [width, height, rotation, theme, seed] only the seed varies here.
TapeDrawsAfter(draws, oldSeed, newSeed) ==
    IF oldSeed # newSeed THEN draws + 1 ELSE draws

MountTape(b) ==
    /\ ~tapeMounted
    /\ FreeHandles(timers) # {}
    /\ tapeMounted' = TRUE
    /\ tapeBouncy' = b
    /\ tapeSeed' = 0
    /\ timers' = TapeEffect(timers, b).timers
    /\ tapeInterval' = TapeEffect(timers, b).interval
    /\ tapeDraws' = 1
    /\ UNCHANGED <<observers, listeners, pinMounted, pinSeed, pinInterval,
                   bgMounted, bgBouncy, bgObserver, bgInterval, boxMounted, boxListener>>
    /\ UNCHANGED exceptTimers

\* The parent renders the Tape with another isBouncy: cleanup, then the effect again.
SetTapeBouncy(b) ==
    /\ tapeMounted
    /\ b # tapeBouncy
    /\ FreeHandles(TapeCleanup(timers, tapeInterval)) # {}
    /\ tapeBouncy' = b
    /\ timers' = TapeEffect(TapeCleanup(timers, tapeInterval), b).timers
    /\ tapeInterval' = TapeEffect(TapeCleanup(timers, tapeInterval), b).interval
    /\ tapeDraws' = TapeDrawsAfter(tapeDraws, tapeSeed, tapeSeed)
    /\ UNCHANGED <<observers, listeners, tapeMounted, tapeSeed,
                   pinMounted, pinSeed, pinInterval,
                   bgMounted, bgBouncy, bgObserver, bgInterval, boxMounted, boxListener>>
    /\ UNCHANGED exceptTimers

\* A registered Tape interval fires: setSeed(updater), re-render, draw effect.
TapeTick ==
    /\ OwnedBy(timers, "Tape") # {}
    /\ tapeSeed < MaxSeed
    /\ tapeSeed' = TapeNextSeed(tapeSeed)
    /\ tapeDraws' = TapeDrawsAfter(tapeDraws, tapeSeed, tapeSeed')
    /\ UNCHANGED <<timers, observers, listeners, tapeMounted, tapeBouncy, tapeInterval,
                   pinMounted, pinSeed, pinInterval,
                   bgMounted, bgBouncy, bgObserver, bgInterval, boxMounted, boxListener>>
    /\ UNCHANGED exceptTimers

UnmountTape ==
    /\ tapeMounted
    /\ tapeMounted' = FALSE
    /\ timers' = TapeCleanup(timers, tapeInterval)
    /\ tapeInterval' = NoHandle
    /\ UNCHANGED <<observers, listeners, tapeBouncy, tapeSeed, tapeDraws,
                   pinMounted, pinSeed, pinInterval,
                   bgMounted, bgBouncy, bgObserver, bgInterval, boxMounted, boxListener>>
    /\ UNCHANGED exceptTimers

----------------------------------------------------------------------------
\* PinnedNote

PinSeedPeriod == 150

\* useEffect(() => { interval = setInterval(..., 150); return cleanup }, [])
MountPinnedNote ==
    /\ ~pinMounted
    /\ FreeHandles(timers) # {}
    /\ pinMounted' = TRUE
    /\ pinSeed' = 0
    /\ timers' = setInterval(timers, NewHandle(timers), "PinnedNote", PinSeedPeriod)
    /\ pinInterval' = NewHandle(timers)
    /\ UNCHANGED <<observers, listeners, tapeMounted, tapeBouncy, tapeSeed, tapeInterval,
                   tapeDraws, bgMounted, bgBouncy, bgObserver, bgInterval,
                   boxMounted, boxListener>>
    /\ UNCHANGED exceptTimers

PinTick ==
    /\ OwnedBy(timers, "PinnedNote") # {}
    /\ pinSeed < MaxSeed
    /\ pinSeed' = pinSeed + 1
    /\ UNCHANGED <<timers, observers, listeners, tapeMounted, tapeBouncy, tapeSeed,
                   tapeInterval, tapeDraws, pinMounted, pinInterval,
                   bgMounted, bgBouncy, bgObserver, bgInterval, boxMounted, boxListener>>
    /\ UNCHANGED exceptTimers

UnmountPinnedNote ==
    /\ pinMounted
    /\ pinMounted' = FALSE
    /\ timers' = clearInterval(timers, pinInterval)
    /\ pinInterval' = NoHandle
    /\ UNCHANGED <<observers, listeners, tapeMounted, tapeBouncy, tapeSeed, tapeInterval,
                   tapeDraws, pinSeed, bgMounted, bgBouncy, bgObserver, bgInterval,
                   boxMounted, boxListener>>
    /\ UNCHANGED exceptTimers

----------------------------------------------------------------------------
\* SketchyBackground

BgDrawPeriod == 200

\* observer.observe(svgElement); if (isBouncy) interval = setInterval(draw, 200)
BgEffect(regT, regO, bouncy) ==
    [observers |-> Register(regO, NewHandle(regO), "SketchyBackground"),
     observer |-> NewHandle(regO),
     timers |-> IF bouncy
                THEN setInterval(regT, NewHandle(regT), "SketchyBackground", BgDrawPeriod)
                ELSE regT,
     interval |-> IF bouncy THEN NewHandle(regT) ELSE NoHandle]

\* return () => { observer.disconnect(); if (interval) clearInterval(interval) }
BgCleanup(regT, regO, observer, interval) ==
    [observers |-> Unregister(regO, observer),
     timers |-> IF interval # NoHandle THEN clearInterval(regT, interval) ELSE regT]

MountBackground(b) ==
    /\ ~bgMounted
    /\ FreeHandles(timers) # {} /\ FreeHandles(observers) # {}
    /\ bgMounted' = TRUE
    /\ bgBouncy' = b
    /\ timers' = BgEffect(timers, observers, b).timers
    /\ observers' = BgEffect(timers, observers, b).observers
    /\ bgObserver' = BgEffect(timers, observers, b).observer
    /\ bgInterval' = BgEffect(timers, observers, b).interval
    /\ UNCHANGED <<listeners, tapeMounted, tapeBouncy, tapeSeed, tapeInterval, tapeDraws,
                   pinMounted, pinSeed, pinInterval, boxMounted, boxListener>>
    /\ UNCHANGED exceptTimers

\* A commit that changed a dependency of the effect ([draw, isBouncy]; draw changes
\* with theme and color): cleanup, then the effect again with isBouncy = b.
RerunBackgroundEffect(b) ==
    /\ bgMounted
    /\ LET c == BgCleanup(timers, observers, bgObserver, bgInterval) IN
        /\ FreeHandles(c.timers) # {} /\ FreeHandles(c.observers) # {}
        /\ bgBouncy' = b
        /\ timers' = BgEffect(c.timers, c.observers, b).timers
        /\ observers' = BgEffect(c.timers, c.observers, b).observers
        /\ bgObserver' = BgEffect(c.timers, c.observers, b).observer
        /\ bgInterval' = BgEffect(c.timers, c.observers, b).interval
    /\ UNCHANGED <<listeners, tapeMounted, tapeBouncy, tapeSeed, tapeInterval, tapeDraws,
                   pinMounted, pinSeed, pinInterval, bgMounted, boxMounted, boxListener>>
    /\ UNCHANGED exceptTimers

UnmountBackground ==
    /\ bgMounted
    /\ bgMounted' = FALSE
    /\ timers' = BgCleanup(timers, observers, bgObserver, bgInterval).timers
    /\ observers' = BgCleanup(timers, observers, bgObserver, bgInterval).observers
    /\ bgObserver' = NoHandle
    /\ bgInterval' = NoHandle
    /\ UNCHANGED <<listeners, tapeMounted, tapeBouncy, tapeSeed, tapeInterval, tapeDraws,
                   pinMounted, pinSeed, pinInterval, bgBouncy, boxMounted, boxListener>>
    /\ UNCHANGED exceptTimers

----------------------------------------------------------------------------
\* TapedBox

\* window.addEventListener('resize', updateSize), updateSize made by this run of the effect
BoxEffect(reg) ==
    [listeners |-> Register(reg, NewHandle(reg), "TapedBox"), listener |-> NewHandle(reg)]

\* return () => window.removeEventListener('resize', updateSize)
BoxCleanup(reg, listener) == Unregister(reg, listener)

MountTapedBox ==
    /\ ~boxMounted
    /\ FreeHandles(listeners) # {}
    /\ boxMounted' = TRUE
    /\ listeners' = BoxEffect(listeners).listeners
    /\ boxListener' = BoxEffect(listeners).listener
    /\ UNCHANGED <<timers, observers, tapeMounted, tapeBouncy, tapeSeed, tapeInterval,
                   tapeDraws, pinMounted, pinSeed, pinInterval,
                   bgMounted, bgBouncy, bgObserver, bgInterval>>
    /\ UNCHANGED exceptTimers

\* A commit with new width or height props: cleanup, then the effect again.
ResizeTapedBoxProps ==
    /\ boxMounted
    /\ FreeHandles(BoxCleanup(listeners, boxListener)) # {}
    /\ listeners' = BoxEffect(BoxCleanup(listeners, boxListener)).listeners
    /\ boxListener' = BoxEffect(BoxCleanup(listeners, boxListener)).listener
    /\ UNCHANGED <<timers, observers, tapeMounted, tapeBouncy, tapeSeed, tapeInterval,
                   tapeDraws, pinMounted, pinSeed, pinInterval,
                   bgMounted, bgBouncy, bgObserver, bgInterval, boxMounted>>
    /\ UNCHANGED exceptTimers

UnmountTapedBox ==
    /\ boxMounted
    /\ boxMounted' = FALSE
    /\ listeners' = BoxCleanup(listeners, boxListener)
    /\ boxListener' = NoHandle
    /\ UNCHANGED <<timers, observers, tapeMounted, tapeBouncy, tapeSeed, tapeInterval,
                   tapeDraws, pinMounted, pinSeed, pinInterval,
                   bgMounted, bgBouncy, bgObserver, bgInterval>>
    /\ UNCHANGED exceptTimers

----------------------------------------------------------------------------

NextTimers ==
    \/ \E b \in BOOLEAN : MountTape(b)
    \/ \E b \in BOOLEAN : SetTapeBouncy(b)
    \/ TapeTick
    \/ UnmountTape
    \/ MountPinnedNote
    \/ PinTick
    \/ UnmountPinnedNote
    \/ \E b \in BOOLEAN : MountBackground(b)
    \/ \E b \in BOOLEAN : RerunBackgroundEffect(b)
    \/ UnmountBackground
    \/ MountTapedBox
    \/ ResizeTapedBoxProps
    \/ UnmountTapedBox

(***************************************************************************)
(* DoodlePad                                                               *)
(*                                                                         *)
(* mousedown, mouseup and click are discrete events: React commits their   *)
(* state updates before the next event is handled, so a handler reads the  *)
(* state as it is.  Under React's StrictMode (development builds) an       *)
(* updater function may be invoked twice on the same previous state.       *)
(***************************************************************************)

\* Most strokes in the sequence, and most points the model lets one drag add to a stroke.
MaxStrokes == 2
MaxPoints == 2

\* Offsets (offsetX, offsetY) of the mouse events.
PadPoints == {<<0, 0>>, <<3, 4>>}
PadModes == {"pen", "eraser"}


\* How often React invokes an updater function for one setState call.
UpdaterInvocations == IF strictMode THEN {1, 2} ELSE {1}

\* const newStroke = { points: [[offsetX, offsetY]], mode: mode }
NewStroke(p, mode) == [points |-> <<p>>, mode |-> mode]

\* (prevStrokes) => [...prevStrokes, newStroke]
MouseDownUpdaterPrepends(prevStrokes, newStroke) == <<newStroke>> \o prevStrokes
MouseDownUpdater(prevStrokes, newStroke) == Append(prevStrokes, newStroke)

\* currentStroke.points.push(p), once per invocation of the updater: the copy
\* [...prevStrokes] shares its stroke objects with prevStrokes, so every
\* invocation pushes onto the same points array.
RECURSIVE Pushed(_, _, _)
Pushed(points, p, n) == IF n = 0 THEN points ELSE Pushed(Append(points, p), p, n - 1)

\* (prevStrokes) => { newStrokes = [...prevStrokes]; last.points.push(p); return newStrokes }
MouseMoveUpdater(prevStrokes, p, n) ==
    [prevStrokes EXCEPT ![Len(prevStrokes)].points = Pushed(@, p, n)]

\* useEffect(() => { if (onStrokesChange) onStrokesChange(strokes) }, [strokes, onStrokesChange])
\* after the commit of one event, for a fixed onStrokesChange: the effect runs
\* when the strokes state holds a new array, and passes it the committed strokes.
StrokesChangeEffectNoDeps(replaced, strokes) == <<strokes>>
StrokesChangeEffect(replaced, strokes) == IF replaced THEN <<strokes>> ELSE <<>>

\* What the array prevStrokes reads after the updater of a mouse-move ran on
\* it: newStrokes = [...prevStrokes] holds the same stroke objects, so the
\* push onto the last stroke's points shows through prevStrokes as well.
PrevStrokesAfterMove(prevStrokes, p, n) ==
    [prevStrokes EXCEPT ![Len(prevStrokes)].points = Pushed(@, p, n)]

handleMouseDown(p) ==
    /\ ~padCrashed
    /\ Len(padStrokes) < MaxStrokes
    /\ padIsDrawing' = TRUE
    /\ padStrokes' = MouseDownUpdater(padStrokes, NewStroke(p, padMode))
    /\ padLastEvent' = "down"
    /\ padCallbackArgs' = StrokesChangeEffect(TRUE, padStrokes')
    /\ UNCHANGED <<strictMode, padMode, padCrashed>>
    /\ UNCHANGED exceptPad

handleMouseMove(p) ==
    /\ ~padCrashed
    /\ padLastEvent' = "move"
    /\ IF ~padIsDrawing
       THEN /\ UNCHANGED <<padStrokes, padCrashed>>
            /\ padCallbackArgs' = <<>>
       ELSE IF Len(padStrokes) = 0
       THEN \* currentStroke is undefined: currentStroke.points throws a TypeError
            /\ padCrashed' = TRUE
            /\ padCallbackArgs' = <<>>
            /\ UNCHANGED padStrokes
       ELSE /\ Len(padStrokes[Len(padStrokes)].points) < MaxPoints
            /\ \E n \in UpdaterInvocations :
                   padStrokes' = MouseMoveUpdater(padStrokes, p, n)
            /\ padCallbackArgs' = StrokesChangeEffect(TRUE, padStrokes')
            /\ UNCHANGED padCrashed
    /\ UNCHANGED <<strictMode, padIsDrawing, padMode>>
    /\ UNCHANGED exceptPad

handleMouseUp ==
    /\ ~padCrashed
    /\ padIsDrawing' = FALSE
    /\ padLastEvent' = "up"
    /\ padCallbackArgs' = StrokesChangeEffect(FALSE, padStrokes)
    /\ UNCHANGED <<strictMode, padStrokes, padMode, padCrashed>>
    /\ UNCHANGED exceptPad

handleMouseLeave ==
    /\ ~padCrashed
    /\ padIsDrawing' = FALSE
    /\ padLastEvent' = "leave"
    /\ padCallbackArgs' = StrokesChangeEffect(FALSE, padStrokes)
    /\ UNCHANGED <<strictMode, padStrokes, padMode, padCrashed>>
    /\ UNCHANGED exceptPad

\* setStrokes([]) and nothing else
handleClearResetsTool ==
    /\ ~padCrashed
    /\ padStrokes' = <<>>
    /\ padMode' = "pen"
    /\ padLastEvent' = "clear"
    /\ padCallbackArgs' = StrokesChangeEffect(TRUE, padStrokes')
    /\ UNCHANGED <<strictMode, padIsDrawing, padCrashed>>
    /\ UNCHANGED exceptPad
handleClear ==
    /\ ~padCrashed
    /\ padStrokes' = <<>>
    /\ padLastEvent' = "clear"
    /\ padCallbackArgs' = StrokesChangeEffect(TRUE, padStrokes')
    /\ UNCHANGED <<strictMode, padIsDrawing, padMode, padCrashed>>
    /\ UNCHANGED exceptPad

\* onClick={() => setMode('pen')} / onClick={() => setMode('eraser')}
setModeRetagsDrag(m) ==
    /\ ~padCrashed
    /\ padMode' = m
    /\ padLastEvent' = "tool"
    /\ padCallbackArgs' = <<>>
    /\ padStrokes' = IF padIsDrawing /\ Len(padStrokes) > 0
                      THEN [padStrokes EXCEPT ![Len(padStrokes)].mode = m]
                      ELSE padStrokes
    /\ UNCHANGED <<strictMode, padIsDrawing, padCrashed>>
    /\ UNCHANGED exceptPad
setMode(m) ==
    /\ ~padCrashed
    /\ padMode' = m
    /\ padLastEvent' = "tool"
    /\ padCallbackArgs' = StrokesChangeEffect(FALSE, padStrokes)
    /\ UNCHANGED <<strictMode, padStrokes, padIsDrawing, padCrashed>>
    /\ UNCHANGED exceptPad

NextPad ==
    \/ \E p \in PadPoints : handleMouseDown(p)
    \/ \E p \in PadPoints : handleMouseMove(p)
    \/ handleMouseUp
    \/ handleMouseLeave
    \/ handleClear
    \/ \E m \in PadModes : setMode(m)

(***************************************************************************)
(* DoodlePad: the canvas size                                              *)
(*                                                                         *)
(* A commit is one step: the render, the cleanup of the size effect when   *)
(* its dependencies [width, height] changed, and the effect itself.        *)
(***************************************************************************)

\* width?: number / height?: number: an omitted prop is undefined, which the
\* code's tests (width || 0, width && height) treat as they treat 0.
Omitted == 0
WidthProps == {Omitted, 60, 120}
HeightProps == {Omitted, 30, 90}
\* container.offsetWidth; the samples are multiples of 5, so that
\* containerWidth * 0.8 is an integer.
ContainerWidths == {0, 50, 100}

\* containerWidth * 0.8
DefaultHeight(containerWidth) == (containerWidth * 4) \div 5

\* useState({ width: width || 0, height: height || 0 })
InitialSize(width, height) == [width |-> width, height |-> height]

\* The size effect: setSize({ width, height }) when both props are given;
\* otherwise updateSize(), which sets the container's width and 0.8 times it
\* when that width is positive, and the observer's first report, which
\* repeats it.
SizeEffect(width, height, containerWidth, size) ==
    IF width # Omitted /\ height # Omitted
    THEN [width |-> width, height |-> height]
    ELSE IF containerWidth > 0
    THEN [width |-> containerWidth, height |-> DefaultHeight(containerWidth)]
    ELSE size

\* The effect returns the cleanup that disconnects its observer only on the
\* container path.
SizeEffectObserves(width, height) == ~(width # Omitted /\ height # Omitted)

MountPad(w, h, c) ==
    /\ ~szMounted
    /\ szMounted' = TRUE
    /\ szWidth' = w
    /\ szHeight' = h
    /\ szContainer' = c
    /\ szSize' = SizeEffect(w, h, c, InitialSize(w, h))
    /\ szObserving' = SizeEffectObserves(w, h)
    /\ UNCHANGED exceptSize

\* The parent renders the pad with other width and height props.
SetPadSizeProps(w, h) ==
    /\ szMounted
    /\ <<w, h>> # <<szWidth, szHeight>>
    /\ szWidth' = w
    /\ szHeight' = h
    /\ szSize' = SizeEffect(w, h, szContainer, szSize)
    /\ szObserving' = SizeEffectObserves(w, h)
    /\ UNCHANGED <<szMounted, szContainer>>
    /\ UNCHANGED exceptSize

\* The container gets another width; an observer that observes it reports
\* it: setSize({ width: containerWidth, height: containerWidth * 0.8 })
ResizeContainer(c) ==
    /\ szMounted
    /\ c # szContainer
    /\ szContainer' = c
    /\ szSize' = IF szObserving
                 THEN [width |-> c, height |-> DefaultHeight(c)]
                 ELSE szSize
    /\ UNCHANGED <<szMounted, szWidth, szHeight, szObserving>>
    /\ UNCHANGED exceptSize

UnmountPad ==
    /\ szMounted
    /\ szMounted' = FALSE
    /\ szObserving' = FALSE
    /\ UNCHANGED <<szWidth, szHeight, szContainer, szSize>>
    /\ UNCHANGED exceptSize

NextSize ==
    \/ \E w \in WidthProps, h \in HeightProps, c \in ContainerWidths : MountPad(w, h, c)
    \/ \E w \in WidthProps, h \in HeightProps : SetPadSizeProps(w, h)
    \/ \E c \in ContainerWidths : ResizeContainer(c)
    \/ UnmountPad

(***************************************************************************)
(* StickyTape                                                              *)
(*                                                                         *)
(* A commit is one step.  The seed interval is the one of Tape: a tick     *)
(* happens while the tape is mounted with isBouncy true.                   *)
(***************************************************************************)

\* const tapeColors = [ peach, light yellow, plum, light blue, light green, light pink ]
tapeColors ==
    << "rgba(255, 218, 185, 0.8)", "rgba(255, 255, 204, 0.8)",
       "rgba(221, 160, 221, 0.8)", "rgba(173, 216, 230, 0.8)",
       "rgba(144, 238, 144, 0.8)", "rgba(255, 182, 193, 0.8)" >>

\* Values of the color prop.
ColorProps == {"undefined", "#ff0000", "#00ff00"}

\* Math.floor(Math.random() * tapeColors.length)
RandomIndexes == 0..(Len(tapeColors) - 1)

\* useState(color || tapeColors[Math.floor(Math.random() * tapeColors.length)]):
\* the initial value; React uses it at mount and ignores it afterwards.
InitialTapeColor(color, r) ==
    IF color \notin {"undefined", ""} THEN color ELSE tapeColors[r + 1]

\* The draw effect empties the SVG and appends rc.rectangle(..., { fill: tapeColor, stroke: tapeColor })
DrawTape(tapeColor) == tapeColor

MountStickyTape(c, b, r) ==
    /\ ~stMounted
    /\ stMounted' = TRUE
    /\ stColor' = c
    /\ stBouncy' = b
    /\ stTapeColor' = InitialTapeColor(c, r)
    /\ stSeed' = 0
    /\ stDrawn' = DrawTape(stTapeColor')
    /\ UNCHANGED exceptSticky

\* The parent renders the tape with another color prop: tapeColor keeps its
\* value, so no dependency of the draw effect changes and it does not run.
SetStickyTapeColor(c) ==
    /\ stMounted
    /\ c # stColor
    /\ stColor' = c
    /\ UNCHANGED <<stMounted, stBouncy, stTapeColor, stSeed, stDrawn>>
    /\ UNCHANGED exceptSticky

SetStickyTapeBouncy(b) ==
    /\ stMounted
    /\ b # stBouncy
    /\ stBouncy' = b
    /\ UNCHANGED <<stMounted, stColor, stTapeColor, stSeed, stDrawn>>
    /\ UNCHANGED exceptSticky

\* setSeed((prevSeed) => prevSeed + 1), then the draw effect (seed changed)
StickyTapeTick ==
    /\ stMounted
    /\ stBouncy
    /\ stSeed < MaxSeed
    /\ stSeed' = stSeed + 1
    /\ stDrawn' = DrawTape(stTapeColor)
    /\ UNCHANGED <<stMounted, stColor, stBouncy, stTapeColor>>
    /\ UNCHANGED exceptSticky

UnmountStickyTape ==
    /\ stMounted
    /\ stMounted' = FALSE
    /\ stColor' = "undefined"
    /\ stBouncy' = FALSE
    /\ stTapeColor' = "none"
    /\ stSeed' = 0
    /\ stDrawn' = "none"
    /\ UNCHANGED exceptSticky

NextSticky ==
    \/ \E c \in ColorProps, b \in BOOLEAN, r \in RandomIndexes : MountStickyTape(c, b, r)
    \/ \E c \in ColorProps : SetStickyTapeColor(c)
    \/ \E b \in BOOLEAN : SetStickyTapeBouncy(b)
    \/ StickyTapeTick
    \/ UnmountStickyTape

(***************************************************************************)
(* colorUtils                                                              *)
(*                                                                         *)
(* A hex string is a sequence of characters; a hex digit is written as its *)
(* value 0..15 and '#' as Hash.                                            *)
(***************************************************************************)

HexDigits == 0..15
Hash == 16

\* percent: number, taken from the whole percents 0..100
Percents == 0..100

\* The hex arguments: six-digit and three-digit colours, with and without '#'.
\* The first channel takes every value; the other two take samples.
LongHexes ==
    {<<a, b>> \o t : a \in HexDigits, b \in HexDigits,
                     t \in {<<0, 0, 15, 15>>, <<8, 0, 1, 1>>}}
ShortHexes == {<<a>> \o t : a \in HexDigits, t \in {<<0, 15>>, <<8, 1>>}}
HexInputs ==
    LET plain == LongHexes \cup ShortHexes
    IN  plain \cup {<<Hash>> \o h : h \in plain}

\* hex.replace(/^#/, '')
StripHash(hex) == IF Len(hex) > 0 /\ hex[1] = Hash THEN Tail(hex) ELSE hex

\* if (hex.length === 3) hex = hex.split('').map((char) => char + char).join('')
ExpandShort(hex) ==
    IF Len(hex) = 3
    THEN <<hex[1], hex[1], hex[2], hex[2], hex[3], hex[3]>>
    ELSE hex

\* parseInt(hex.substring(2 * (i - 1), 2 * i), 16), for two hex digits
ParseChannel(hex, i) == 16 * hex[2 * i - 1] + hex[2 * i]

\* Math.floor(c * factor) with factor = num / 100 computed in doubles.  The
\* factor is exact when it is a multiple of 1/4; otherwise a product whose
\* exact value is a whole number can come out just below it (5 * (1 - 80 / 100)
\* is 0.9999999999999998), and the floor is then one less.  Both outcomes are
\* allowed wherever that can happen.
ScaledFloors(c, num) ==
    LET exact == (c * num) \div 100
    IN  IF (c * num) % 100 = 0 /\ num % 25 # 0 /\ c > 0
        THEN {exact, exact - 1}
        ELSE {exact}

Min(a, b) == IF a < b THEN a ELSE b
Max(a, b) == IF a > b THEN a ELSE b

\* Math.min(255, Math.max(0, x))
ClampChannelNoMin(x) == Max(0, x)
ClampChannel(x) == Min(255, Max(0, x))

\* c.toString(16), for c >= 0
RECURSIVE ToString16(_)
ToString16(c) == IF c < 16 THEN <<c>> ELSE ToString16(c \div 16) \o <<c % 16>>

\* ('0' + c.toString(16)).slice(-2)
toHex(c) ==
    LET s == <<0>> \o ToString16(c)
    IN  SubSeq(s, Len(s) - 1, Len(s))

\* The strings the function can return for (hex, percent), with
\* factor = num / 100: num is 100 - percent in darken, 100 + percent in lighten.
ScaledColors(hex, num) ==
    LET h == ExpandShort(StripHash(hex))
    IN  {toHex(ClampChannel(r)) \o toHex(ClampChannel(g)) \o toHex(ClampChannel(b)) :
            r \in ScaledFloors(ParseChannel(h, 1), num),
            g \in ScaledFloors(ParseChannel(h, 2), num),
            b \in ScaledFloors(ParseChannel(h, 3), num)}

darken ==
    /\ cuOp = "none"
    /\ cuOp' = "darken"
    /\ cuOut' \in ScaledColors(cuHex, 100 - cuPercent)
    /\ UNCHANGED <<cuHex, cuPercent>>
    /\ UNCHANGED exceptColor

lighten ==
    /\ cuOp = "none"
    /\ cuOp' = "lighten"
    /\ cuOut' \in ScaledColors(cuHex, 100 + cuPercent)
    /\ UNCHANGED <<cuHex, cuPercent>>
    /\ UNCHANGED exceptColor

NextColor ==
    \/ darken
    \/ lighten

(***************************************************************************)
(* mergeStyles                                                             *)
(*                                                                         *)
(* Objects have identity: the heap maps an identity to the object's        *)
(* properties (a function from property names to values).  The caller      *)
(* holds the shared tw constants, a style object of its own and the object *)
(* the previous call returned ("res"; "prev" is the one before it).        *)
(***************************************************************************)

\* Most arguments of one call.
MaxArgs == 2

\* export const tw = { flexCol: {...}, itemsCenter: {...}, ... }
tw == [ flexCol     |-> [display |-> "flex", flexDirection |-> "column"],
        itemsCenter |-> [alignItems |-> "center"] ]

\* A style object of the caller, e.g. mergeStyles(tw.flexCol, { display: 'block', ... })
OwnStyle == [display |-> "block", alignItems |-> "flex-end"]

\* The objects the caller can pass.
ArgValues(heap) ==
    {"undefined", "tw.flexCol", "tw.itemsCenter", "own"} \cup (DOMAIN heap \cap {"res"})
ArgLists(heap) == UNION {[1..n -> ArgValues(heap)] : n \in 0..MaxArgs}

\* styles.filter(Boolean)
FilterBoolean(styles) == SelectSeq(styles, LAMBDA s : s # "undefined")

\* One source of Object.assign: every own property of the source is set on the target.
AssignOne(target, source) ==
    [k \in (DOMAIN target) \cup (DOMAIN source) |->
        IF k \in DOMAIN source THEN source[k] ELSE target[k]]

\* Object.assign(target, ...sources): changes the target in place, source by source.
RECURSIVE ObjectAssign(_, _, _)
ObjectAssign(heap, target, sources) ==
    IF sources = <<>>
    THEN heap
    ELSE ObjectAssign([heap EXCEPT ![target] = AssignOne(@, heap[sources[1]])],
                      target, Tail(sources))

\* The heap with the empty object {} allocated under the identity "new".
Allocated(heap) == [id \in (DOMAIN heap) \cup {"new"} |-> IF id = "new" THEN <<>> ELSE heap[id]]

\* return Object.assign({}, ...styles.filter(Boolean)): the heap after the
\* call and the identity returned.
mergeStylesOntoFirst(heap, styles) ==
    LET defined == FilterBoolean(styles)
    IN  IF defined = <<>>
        THEN [heap |-> Allocated(heap), result |-> "new"]
        ELSE [heap |-> ObjectAssign(heap, defined[1], Tail(defined)), result |-> defined[1]]
mergeStyles(heap, styles) ==
    [heap |-> ObjectAssign(Allocated(heap), "new", FilterBoolean(styles)), result |-> "new"]

\* Identities after a call, as the caller holds them: the object just
\* returned is "res", the one returned before is "prev".
Renamed(id) == IF id = "new" THEN "res" ELSE IF id = "res" THEN "prev" ELSE id

\* The caller calls mergeStyles(...styles), keeps the object returned and
\* lets go of the one it got two calls ago.
CallMergeStyles(styles) ==
    LET held == [id \in (DOMAIN msHeap) \ {"prev"} |-> msHeap[id]]
        out == mergeStyles(held, styles)
    IN  /\ msHeap' = [id \in {Renamed(i) : i \in DOMAIN out.heap} |->
                         out.heap[CHOOSE i \in DOMAIN out.heap : Renamed(i) = id]]
        /\ msArgs' = [i \in 1..Len(styles) |-> Renamed(styles[i])]
        /\ msResult' = Renamed(out.result)
        /\ UNCHANGED exceptMerge

NextMerge == \E styles \in ArgLists(msHeap) : CallMergeStyles(styles)

(***************************************************************************)
(* StickyNote and FoldedCorner                                             *)
(*                                                                         *)
(* A render and its commit are one step; the passive effects it schedules  *)
(* run in a later step, children first, and a state update made by an      *)
(* effect is rendered in a step after that.  The browser can paint between *)
(* any two steps.  A path is the sequence of its commands, each with the   *)
(* point it leads to; an arc A has the radii borderRadius, flags 0 0 1.    *)
(***************************************************************************)

\* foldedCorner?: 'topLeft' | 'topRight' | 'bottomLeft' | 'bottomRight' | 'none'
Corners == {"topLeft", "topRight", "bottomLeft", "bottomRight"}
FoldedCornerProps == Corners \cup {"none"}

\* foldSize?: number
FoldSizeProps == {<<>>, <<20>>, <<40>>}

\* Math.random() * 20 + 25, by samples
RandomFoldSizes == {25, 30}

\* useState(30); width = 256, height = 256; const borderRadius = 15
InitialFoldSize == 30
NoteWidth == 256
NoteHeight == 256
borderRadius == 15

Cmd(op, px, py) == [op |-> op, to |-> <<px, py>>]
ClosePath == [op |-> "Z", to |-> <<>>]

\* mainPath of the outline draw effect, with x = y = strokeWidth / 2 = 1,
\* w = width - strokeWidth, h = height - strokeWidth, s = actualFoldSize
mainPath(foldedCorner, s, width, height) ==
    LET r == borderRadius
        x == 1
        y == 1
        w == width - 2
        h == height - 2
    IN  CASE foldedCorner = "topLeft" ->
              << Cmd("M", x + s, y), Cmd("L", x + w - r, y), Cmd("A", x + w, y + r),
                 Cmd("L", x + w, y + h - r), Cmd("A", x + w - r, y + h),
                 Cmd("L", x + r, y + h), Cmd("A", x, y + h - r),
                 Cmd("L", x, y + s), ClosePath >>
          [] foldedCorner = "topRight" ->
              << Cmd("M", x + r, y), Cmd("L", x + w - s, y), Cmd("L", x + w, y + s),
                 Cmd("L", x + w, y + h - r), Cmd("A", x + w - r, y + h),
                 Cmd("L", x + r, y + h), Cmd("A", x, y + h - r),
                 Cmd("L", x, y + r), Cmd("A", x + r, y), ClosePath >>
          [] foldedCorner = "bottomLeft" ->
              << Cmd("M", x + r, y), Cmd("L", x + w - r, y), Cmd("A", x + w, y + r),
                 Cmd("L", x + w, y + h - r), Cmd("A", x + w - r, y + h),
                 Cmd("L", x + s, y + h), Cmd("L", x, y + h - s),
                 Cmd("L", x, y + r), Cmd("A", x + r, y), ClosePath >>
          [] foldedCorner = "bottomRight" ->
              << Cmd("M", x + r, y), Cmd("L", x + w - r, y), Cmd("A", x + w, y + r),
                 Cmd("L", x + w, y + h - s), Cmd("L", x + w - s, y + h),
                 Cmd("L", x + r, y + h), Cmd("A", x, y + h - r),
                 Cmd("L", x, y + r), Cmd("A", x + r, y), ClosePath >>
          [] OTHER ->
              << Cmd("M", x + r, y), Cmd("L", x + w - r, y), Cmd("A", x + w, y + r),
                 Cmd("L", x + w, y + h - r), Cmd("A", x + w - r, y + h),
                 Cmd("L", x + r, y + h), Cmd("A", x, y + h - r),
                 Cmd("L", x, y + r), Cmd("A", x + r, y), ClosePath >>

\* foldTrianglePath of the outline draw effect (<<>>: undefined)
foldTrianglePath(foldedCorner, s, width, height) ==
    LET x == 1
        y == 1
        w == width - 2
        h == height - 2
    IN  CASE foldedCorner = "topLeft" ->
              << Cmd("M", x, y + s), Cmd("L", x + s, y + s), Cmd("L", x + s, y) >>
          [] foldedCorner = "topRight" ->
              << Cmd("M", x + w - s, y), Cmd("L", x + w - s, y + s), Cmd("L", x + w, y + s) >>
          [] foldedCorner = "bottomLeft" ->
              << Cmd("M", x, y + h - s), Cmd("L", x + s, y + h - s), Cmd("L", x + s, y + h) >>
          [] foldedCorner = "bottomRight" ->
              << Cmd("M", x + w, y + h - s), Cmd("L", x + w - s, y + h - s),
                 Cmd("L", x + w - s, y + h) >>
          [] OTHER -> <<>>

\* The outline draw effect: the SVG is emptied, the main shape is appended,
\* and the fold triangle when its path is defined.
DrawOutline(foldedCorner, s, width, height) ==
    LET triangle == foldTrianglePath(foldedCorner, s, width, height)
    IN  <<mainPath(foldedCorner, s, width, height)>>
            \o (IF triangle # <<>> THEN <<triangle>> ELSE <<>>)

\* creasePath of FoldedCorner's draw effect, in the coordinates of its own SVG
creasePathThroughCorner(corner, s) ==
    IF corner \in {"topLeft", "bottomRight"}
    THEN << Cmd("M", 0, 0), Cmd("L", s, s) >>
    ELSE << Cmd("M", 0, s), Cmd("L", s, 0) >>
creasePath(corner, s) ==
    CASE corner = "topLeft" -> << Cmd("M", s, 0), Cmd("L", 0, s) >>
      [] corner = "topRight" -> << Cmd("M", 0, 0), Cmd("L", s, s) >>
      [] corner = "bottomLeft" -> << Cmd("M", 0, 0), Cmd("L", s, s) >>
      [] corner = "bottomRight" -> << Cmd("M", 0, s), Cmd("L", s, 0) >>

\* FoldedCorner.getPositionStyle: the sides of the note the size x size box is put at
getPositionStyle(corner) ==
    [ vertical   |-> IF corner \in {"topLeft", "topRight"} THEN "top" ELSE "bottom",
      horizontal |-> IF corner \in {"topLeft", "bottomLeft"} THEN "left" ELSE "right" ]

\* {foldedCorner !== 'none' && <FoldedCorner corner={foldedCorner} size={actualFoldSize} />}:
\* the child after a render; its SVG keeps what it holds until its effect runs.
RenderedFold(foldedCorner, size, fold) ==
    IF foldedCorner = "none"
    THEN <<>>
    ELSE << [corner |-> foldedCorner, size |-> size, at |-> getPositionStyle(foldedCorner),
             svg |-> IF fold = <<>> THEN <<>> ELSE fold[1].svg] >>

MountNote(c, f) ==
    /\ ~snMounted
    /\ snMounted' = TRUE
    /\ snCorner' = c
    /\ snFoldSize' = f
    /\ snActual' = InitialFoldSize
    /\ snShown' = InitialFoldSize
    /\ snSvg' = <<>>
    /\ snFold' = RenderedFold(c, InitialFoldSize, <<>>)
    /\ snEffects' = {"foldSize", "outline"} \cup (IF c # "none" THEN {"crease"} ELSE {})
    /\ snPainted' = <<>>
    /\ UNCHANGED exceptNote

\* The scheduled effects run: FoldedCorner's draw effect, then
\* setActualFoldSize(foldSize ?? Math.random() * 20 + 25), then the outline
\* draw effect with the actualFoldSize its render saw.
FlushNoteEffects(random) ==
    /\ snMounted
    /\ snEffects # {}
    /\ snFold' = IF "crease" \in snEffects /\ snFold # <<>>
                 THEN << [snFold[1] EXCEPT !.svg = <<creasePath(snFold[1].corner, snFold[1].size)>>] >>
                 ELSE snFold
    /\ snActual' = IF "foldSize" \in snEffects
                   THEN (IF snFoldSize # <<>> THEN snFoldSize[1] ELSE random)
                   ELSE snActual
    /\ snSvg' = IF "outline" \in snEffects
                THEN DrawOutline(snCorner, snShown, NoteWidth, NoteHeight)
                ELSE snSvg
    /\ snEffects' = {}
    /\ UNCHANGED <<snMounted, snCorner, snFoldSize, snShown, snPainted>>
    /\ UNCHANGED exceptNote

\* The render of the state update an effect made: actualFoldSize changed, so
\* the outline effect and the child's draw effect are scheduled.
RerenderNote ==
    /\ snMounted
    /\ snEffects = {}
    /\ snActual # snShown
    /\ snShown' = snActual
    /\ snFold' = RenderedFold(snCorner, snActual, snFold)
    /\ snEffects' = {"outline"} \cup (IF snCorner # "none" THEN {"crease"} ELSE {})
    /\ UNCHANGED <<snMounted, snCorner, snFoldSize, snActual, snSvg, snPainted>>
    /\ UNCHANGED exceptNote

\* The parent renders the note with other foldedCorner and foldSize props;
\* an effect is scheduled when one of its dependencies changed.
SetNoteProps(c, f) ==
    /\ snMounted
    /\ snEffects = {}
    /\ <<c, f>> # <<snCorner, snFoldSize>>
    /\ snCorner' = c
    /\ snFoldSize' = f
    /\ snShown' = snActual
    /\ snFold' = RenderedFold(c, snActual, snFold)
    /\ snEffects' =
           (IF f # snFoldSize THEN {"foldSize"} ELSE {})
           \cup (IF c # snCorner \/ snActual # snShown THEN {"outline"} ELSE {})
           \cup (IF c # "none" /\ (c # snCorner \/ snActual # snShown) THEN {"crease"} ELSE {})
    /\ snPainted' = <<>>
    /\ UNCHANGED <<snMounted, snActual, snSvg>>
    /\ UNCHANGED exceptNote

\* The browser paints the document as it is.
PaintNote ==
    /\ snMounted
    /\ snPainted' = << [svg |-> snSvg, fold |-> snFold] >>
    /\ UNCHANGED <<snMounted, snCorner, snFoldSize, snActual, snShown, snEffects,
                   snSvg, snFold>>
    /\ UNCHANGED exceptNote

UnmountNote ==
    /\ snMounted
    /\ snMounted' = FALSE
    /\ snCorner' = "none"
    /\ snFoldSize' = <<>>
    /\ snActual' = InitialFoldSize
    /\ snShown' = InitialFoldSize
    /\ snEffects' = {}
    /\ snSvg' = <<>>
    /\ snFold' = <<>>
    /\ snPainted' = <<>>
    /\ UNCHANGED exceptNote

NextNote ==
    \/ \E c \in FoldedCornerProps, f \in FoldSizeProps : MountNote(c, f)
    \/ \E random \in RandomFoldSizes : FlushNoteEffects(random)
    \/ RerenderNote
    \/ \E c \in FoldedCornerProps, f \in FoldSizeProps : SetNoteProps(c, f)
    \/ PaintNote
    \/ UnmountNote

(***************************************************************************)
(* JourneyLine                                                             *)
(*                                                                         *)
(* A commit is one step: the render and the draw effect.  The path         *)
(* "M p0 C c1 c2 p1 C ..." is its start point and its cubic segments.      *)
(* Coordinates are whole numbers with dx a multiple of 4 and dy even, so   *)
(* that dx * 0.25 and dy * 0.5 are whole; Math.random() is taken in        *)
(* hundredths.                                                             *)
(***************************************************************************)

\* Most points of a points prop.
MaxJourneyPoints == 3

\* The points props: the first n points of a zig-zag, n = 0..MaxJourneyPoints.
JourneyPoints ==
    << [x |-> 0, y |-> 0], [x |-> 400, y |-> 200], [x |-> -200, y |-> 80],
       [x |-> 40, y |-> 400], [x |-> 0, y |-> 0] >>
PointLists == {SubSeq(JourneyPoints, 1, n) : n \in 0..MaxJourneyPoints}

\* Math.random() * 100: the samples 0 and 0.99
RandomSamples == {0, 99}

\* The values of the three Math.random() calls of each segment, in call order.
RandomDraws(points) == [1..(Len(points) - 1) -> [1..3 -> RandomSamples]]

\* const direction = i % 2 === 0 ? 1 : -1
directionFixed(i) == 1
direction(i) == IF i % 2 = 0 THEN 1 ELSE 0 - 1

\* One pass of the loop body for i: " C ctrlX1,ctrlY1 ctrlX2,ctrlY2 end.x,end.y"
CubicSegment(points, i, rnd) ==
    LET start == points[i]
        end == points[i + 1]
        dx == end.x - start.x
        dy == end.y - start.y
        verticalRandomness == IF i = 1 THEN rnd[1] + 50 ELSE 2 * rnd[1] - 100
    IN  [ c1 |-> [x |-> start.x + dx \div 4 + direction(i) * (2 * rnd[2] + 150),
                  y |-> start.y + dy \div 2 + verticalRandomness],
          c2 |-> [x |-> end.x - dx \div 4 - direction(i) * (2 * rnd[3] + 150),
                  y |-> end.y - dy \div 2 - verticalRandomness],
          to |-> end ]

\* The draw effect: with fewer than two points it leaves the SVG as it is;
\* otherwise it empties the SVG and appends the path through the points.
DrawJourney(points, draws, svg) ==
    IF Len(points) > 1
    THEN << [ start |-> points[1],
              curves |-> [i \in 1..(Len(points) - 1) |-> CubicSegment(points, i, draws[i])] ] >>
    ELSE svg

MountJourneyLine(points, draws) ==
    /\ ~jlMounted
    /\ jlMounted' = TRUE
    /\ jlPoints' = points
    /\ jlSvg' = DrawJourney(points, draws, <<>>)
    /\ UNCHANGED exceptJourney

\* The parent renders the line with another points array: the effect runs again.
SetJourneyPoints(points, draws) ==
    /\ jlMounted
    /\ jlPoints' = points
    /\ jlSvg' = DrawJourney(points, draws, jlSvg)
    /\ UNCHANGED jlMounted
    /\ UNCHANGED exceptJourney

UnmountJourneyLine ==
    /\ jlMounted
    /\ jlMounted' = FALSE
    /\ jlPoints' = <<>>
    /\ jlSvg' = <<>>
    /\ UNCHANGED exceptJourney

NextJourney ==
    \/ \E points \in PointLists : \E draws \in RandomDraws(points) :
           MountJourneyLine(points, draws)
    \/ \E points \in PointLists : \E draws \in RandomDraws(points) :
           SetJourneyPoints(points, draws)
    \/ UnmountJourneyLine

(***************************************************************************)
(* TapedBox: measuring the box                                             *)
(*                                                                         *)
(* The effect on [width, height] requests an animation frame that calls    *)
(* updateSize and registers updateSize for window 'resize'.  Its cleanup   *)
(* removes the listener; the animation frame is never cancelled, so it can *)
(* fire after a later run of the effect or after the unmount.  updateSize  *)
(* reads ref.current, which React sets to null when the div is unmounted.  *)
(***************************************************************************)

MaxFrames == 2

NoElement == [offsetWidth |-> -1, offsetHeight |-> -1]

OffsetWidths == {0, 100}

OffsetHeights == {0, 50}

Elements == [offsetWidth : OffsetWidths, offsetHeight : OffsetHeights]

\* useState({ width: 0, height: 0 })
InitialBoxSize == [width |-> 0, height |-> 0]

\* The setSize calls of one updateSize(), given ref.current.
updateSizeUnguarded(current) ==
    <<[width |-> current.offsetWidth, height |-> current.offsetHeight]>>

updateSize(current) ==
    IF current # NoElement
    THEN <<[width |-> current.offsetWidth, height |-> current.offsetHeight]>>
    ELSE <<>>

\* The state after the given setSize calls.
AfterSetSize(size, calls) == IF calls = <<>> THEN size ELSE calls[Len(calls)]

\* Mount: the div is attached to ref, then the effect runs.
MountBox(el) ==
    /\ ~tbMounted
    /\ tbFrames < MaxFrames
    /\ tbMounted' = TRUE
    /\ tbRef' = el
    /\ tbSize' = InitialBoxSize
    /\ tbListening' = TRUE
    /\ tbFrames' = tbFrames + 1
    /\ tbLastEvent' = "mount"
    /\ UNCHANGED <<tbStaleFrames, tbLateUpdates>>
    /\ UNCHANGED exceptBox

\* A commit with new width or height props: cleanup, then the effect again.
SetBoxProps ==
    /\ tbMounted
    /\ tbFrames < MaxFrames
    /\ tbListening' = TRUE
    /\ tbFrames' = tbFrames + 1
    /\ tbLastEvent' = "props"
    /\ UNCHANGED <<tbMounted, tbRef, tbSize, tbStaleFrames, tbLateUpdates>>
    /\ UNCHANGED exceptBox

\* The layout gives the div another size.
LayoutBox(el) ==
    /\ tbMounted
    /\ el # tbRef
    /\ tbRef' = el
    /\ tbLastEvent' = "layout"
    /\ UNCHANGED <<tbMounted, tbSize, tbListening, tbFrames, tbStaleFrames, tbLateUpdates>>
    /\ UNCHANGED exceptBox

\* An animation frame requested by the mounted instance fires.
BoxFrame ==
    /\ tbMounted
    /\ tbFrames > 0
    /\ tbFrames' = tbFrames - 1
    /\ tbSize' = AfterSetSize(tbSize, updateSize(tbRef))
    /\ tbLastEvent' = "frame"
    /\ UNCHANGED <<tbMounted, tbRef, tbListening, tbStaleFrames, tbLateUpdates>>
    /\ UNCHANGED exceptBox

\* An animation frame requested by an unmounted instance fires: its
\* updateSize reads that instance's ref, which is null since the unmount.
StaleBoxFrame ==
    /\ tbStaleFrames > 0
    /\ tbStaleFrames' = tbStaleFrames - 1
    /\ tbLateUpdates' = tbLateUpdates + Len(updateSize(NoElement))
    /\ tbSize' = IF tbMounted THEN tbSize
                 ELSE AfterSetSize(tbSize, updateSize(NoElement))
    /\ tbLastEvent' = "staleFrame"
    /\ UNCHANGED <<tbMounted, tbRef, tbListening, tbFrames>>
    /\ UNCHANGED exceptBox

\* The window fires 'resize': the registered updateSize runs, if any.
WindowResize ==
    /\ tbSize' = IF tbListening THEN AfterSetSize(tbSize, updateSize(tbRef)) ELSE tbSize
    /\ tbLateUpdates' = IF tbListening /\ ~tbMounted
                        THEN tbLateUpdates + Len(updateSize(tbRef))
                        ELSE tbLateUpdates
    /\ tbLastEvent' = "resize"
    /\ UNCHANGED <<tbMounted, tbRef, tbListening, tbFrames, tbStaleFrames>>
    /\ UNCHANGED exceptBox

\* Unmount: the cleanup removes the listener and React detaches the ref;
\* the frames already requested stay requested.
UnmountBox ==
    /\ tbMounted
    /\ tbFrames + tbStaleFrames <= MaxFrames
    /\ tbMounted' = FALSE
    /\ tbRef' = NoElement
    /\ tbListening' = FALSE
    /\ tbStaleFrames' = tbStaleFrames + tbFrames
    /\ tbFrames' = 0
    /\ tbLastEvent' = "unmount"
    /\ UNCHANGED <<tbSize, tbLateUpdates>>
    /\ UNCHANGED exceptBox

NextBox ==
    \/ \E el \in Elements : MountBox(el)
    \/ SetBoxProps
    \/ \E el \in Elements : LayoutBox(el)
    \/ BoxFrame
    \/ StaleBoxFrame
    \/ WindowResize
    \/ UnmountBox

(***************************************************************************)
(* The draw effects of Tape, SketchyRectangle and StickyTape               *)
(*                                                                         *)
(* Each of the three components renders one <svg> and has one draw effect  *)
(* that removes every child of the SVG and appends one rough.js shape.     *)
(* The effect runs after the mount and after every render in which one of  *)
(* its dependencies changed.  The shape is modelled by the arguments given *)
(* to rough.js: the geometry, the colours and the seed.                    *)
(***************************************************************************)

MaxShapeSeed == 2

SvgKinds == {"Tape", "SketchyRectangle", "StickyTape"}

\* strokeWidth: customStrokeWidth ?? 2
DefaultStrokeWidth == 2

\* The props of each component; a Tape and a StickyTape have no
\* borderRadius and no strokeWidth (modelled as Omitted).
RectangleProps ==
    [width : {4, 10}, height : {4, 6}, borderRadius : {0, 1, 3}, strokeWidth : {Omitted, 1, 4}]

TapeProps ==
    [width : {10, 20}, height : {10, 30}, borderRadius : {Omitted}, strokeWidth : {Omitted}]

PropsOf(kind) == IF kind = "SketchyRectangle" THEN RectangleProps ELSE TapeProps

\* StickyTape: the sample tapeColor states
StickyTapeColors == {tapeColors[1], tapeColors[2]}

Min3(a, b, c) == Min(a, Min(b, c))

\* Tape: rc.polygon(points, { fill: tapeColor, stroke: tapeColor, ... });
\* the coordinates are in tenths of a pixel.
TapePolygon(width, height, th, seed) ==
    [ shape  |-> "polygon",
      points |-> << <<0, 3 * height>>, <<10 * width, 0>>,
                    <<7 * width, 10 * height>>, <<0, 10 * height>> >>,
      fill   |-> IF th = "dark" THEN "rgba(255, 255, 204, 0.7)"
                                   ELSE "rgba(210, 180, 140, 0.8)",
      seed   |-> seed ]

\* SketchyRectangle: the path string, as its commands in order (an arc is
\* given by its end point); the coordinates are in half pixels, so that
\* strokeWidth / 2, width / 2 and height / 2 are integers.
RectanglePath(width, height, radius, customStrokeWidth) ==
    LET strokeWidth == IF customStrokeWidth = Omitted THEN DefaultStrokeWidth
                       ELSE customStrokeWidth
        r == Min3(2 * radius, width, height)
        x == strokeWidth
        y == strokeWidth
        w == 2 * (width - strokeWidth)
        h == 2 * (height - strokeWidth)
    IN  << Cmd("M", x + r, y),
           Cmd("L", x + w - r, y),
           Cmd("A", x + w, y + r),
           Cmd("L", x + w, y + h - r),
           Cmd("A", x + w - r, y + h),
           Cmd("L", x + r, y + h),
           Cmd("A", x, y + h - r),
           Cmd("L", x, y + r),
           Cmd("A", x + r, y),
           ClosePath >>

\* SketchyRectangle: rc.path(path, { stroke: strokeColor, ... })
RectangleShape(props, th, seed) ==
    [ shape  |-> "path",
      path   |-> RectanglePath(props.width, props.height, props.borderRadius,
                               props.strokeWidth),
      stroke |-> IF th = "dark" THEN "white" ELSE "black",
      seed   |-> seed ]

\* StickyTape: rc.rectangle(0, 0, width, height, { fill: tapeColor, ... })
TapeRectangle(width, height, tapeColor, seed) ==
    [ shape  |-> "rectangle",
      x |-> 0, y |-> 0, width |-> width, height |-> height,
      fill   |-> tapeColor,
      seed   |-> seed ]

\* The shape the draw effect of the component makes.
ShapeOf(kind, props, th, tapeColor, seed) ==
    IF kind = "Tape" THEN TapePolygon(props.width, props.height, th, seed)
    ELSE IF kind = "SketchyRectangle" THEN RectangleShape(props, th, seed)
    ELSE TapeRectangle(props.width, props.height, tapeColor, seed)

\* while (svg.firstChild) svg.removeChild(svg.firstChild); ... svg.appendChild(shape)
DrawEffectKeepsChildren(children, shape) == Append(children, shape)

DrawEffect(children, shape) == <<shape>>

\* The dependencies of the draw effect: StickyTape does not read the theme,
\* Tape and SketchyRectangle do not have a tapeColor.
DrawDeps(kind, props, th, tapeColor, seed) ==
    IF kind = "StickyTape" THEN <<props, tapeColor, seed>> ELSE <<props, th, seed>>

\* A commit: the draw effect runs if the component was just mounted or one
\* of its dependencies changed.
AfterCommit(children, mounting, before, kind, props, th, tapeColor, seed) ==
    IF mounting \/ before # DrawDeps(kind, props, th, tapeColor, seed)
    THEN DrawEffect(children, ShapeOf(kind, props, th, tapeColor, seed))
    ELSE children

CurrentDeps == DrawDeps(svKind, svProps, svTheme, svTapeColor, svSeed)

MountShape(kind, props, color) ==
    /\ svKind = "none"
    /\ svKind' = kind
    /\ svProps' = props
    /\ svTapeColor' = IF kind = "StickyTape" THEN color ELSE "none"
    /\ svSeed' = 0
    /\ svChildren' = AfterCommit(<<>>, TRUE, <<>>, kind, props, svTheme, svTapeColor', 0)
    /\ UNCHANGED svTheme
    /\ UNCHANGED exceptSvg

\* The parent renders the component with other props.
SetShapeProps(props) ==
    /\ svKind # "none"
    /\ props \in PropsOf(svKind)
    /\ svProps' = props
    /\ svChildren' = AfterCommit(svChildren, FALSE, CurrentDeps,
                                 svKind, props, svTheme, svTapeColor, svSeed)
    /\ UNCHANGED <<svKind, svTheme, svTapeColor, svSeed>>
    /\ UNCHANGED exceptSvg

\* The theme changes: the components that call useFeebyTheme render again.
SetShapeTheme(th) ==
    /\ th # svTheme
    /\ svTheme' = th
    /\ svChildren' = IF svKind = "none" THEN svChildren
                     ELSE AfterCommit(svChildren, FALSE, CurrentDeps,
                                      svKind, svProps, th, svTapeColor, svSeed)
    /\ UNCHANGED <<svKind, svProps, svTapeColor, svSeed>>
    /\ UNCHANGED exceptSvg

\* A tick of the seed interval of a bouncy component: setSeed(prevSeed + 1).
ShapeTick ==
    /\ svKind # "none"
    /\ svSeed < MaxShapeSeed
    /\ svSeed' = svSeed + 1
    /\ svChildren' = AfterCommit(svChildren, FALSE, CurrentDeps,
                                 svKind, svProps, svTheme, svTapeColor, svSeed + 1)
    /\ UNCHANGED <<svKind, svProps, svTheme, svTapeColor>>
    /\ UNCHANGED exceptSvg

\* Unmount: the <svg> leaves the document with its children.
UnmountShape ==
    /\ svKind # "none"
    /\ svKind' = "none"
    /\ svProps' = [width |-> 0, height |-> 0, borderRadius |-> 0, strokeWidth |-> 0]
    /\ svTapeColor' = "none"
    /\ svSeed' = 0
    /\ svChildren' = <<>>
    /\ UNCHANGED svTheme
    /\ UNCHANGED exceptSvg

NextSvg ==
    \/ \E kind \in SvgKinds : \E props \in PropsOf(kind) : \E color \in StickyTapeColors :
           MountShape(kind, props, color)
    \/ \E props \in RectangleProps \cup TapeProps : SetShapeProps(props)
    \/ \E th \in Theme : SetShapeTheme(th)
    \/ ShapeTick
    \/ UnmountShape

(***************************************************************************)
(* SketchyBackground: draw                                                 *)
(*                                                                         *)
(* draw is called by the ResizeObserver callback (once after observe() and *)
(* after every change of the size of the <svg>) and, on a bouncy           *)
(* background, by the 200 ms interval.  The effect that creates both       *)
(* depends on [draw, isBouncy], and draw on [theme, color]: a new theme or *)
(* color makes a new observer, which reports the size again.               *)
(***************************************************************************)

ClientSizes == {0, 300} \X {0, 200}

BackgroundColors == {"", "#fde68a"}

\* color || (theme === 'dark' ? '#444' : 'rgba(0, 0, 0, 0.1)')
hachureColor(color, th) ==
    IF color # "" THEN color
    ELSE IF th = "dark" THEN "#444" ELSE "rgba(0, 0, 0, 0.1)"

\* The children of the <svg> after one call of draw (svgRef.current is set).
drawClearsBeforeSizeTest(children, client, color, th) ==
    IF client[1] = 0 \/ client[2] = 0 THEN <<>>
    ELSE << [ shape |-> "rectangle", x |-> 0, y |-> 0,
              width |-> client[1], height |-> client[2],
              fill |-> hachureColor(color, th) ] >>

draw(children, client, color, th) ==
    IF client[1] = 0 \/ client[2] = 0 THEN children
    ELSE << [ shape |-> "rectangle", x |-> 0, y |-> 0,
              width |-> client[1], height |-> client[2],
              fill |-> hachureColor(color, th) ] >>

\* The steps that call draw.
DrawTriggers == {"observer", "interval"}

\* Mount: the effect observes the <svg>; nothing is drawn yet.
MountSketchyBackground(b, c, client) ==
    /\ ~bkMounted
    /\ bkMounted' = TRUE
    /\ bkBouncy' = b
    /\ bkColor' = c
    /\ bkClient' = client
    /\ bkObserved' = TRUE
    /\ bkChildren' = <<>>
    /\ bkLastEvent' = "mount"
    /\ UNCHANGED bkTheme
    /\ UNCHANGED exceptBackground

\* A render with other props: the effect runs again if draw or isBouncy
\* changed, and the new observer reports the size.
SetBackgroundProps(b, c) ==
    /\ bkMounted
    /\ <<b, c>> # <<bkBouncy, bkColor>>
    /\ bkBouncy' = b
    /\ bkColor' = c
    /\ bkObserved' = TRUE
    /\ bkLastEvent' = "props"
    /\ UNCHANGED <<bkMounted, bkTheme, bkClient, bkChildren>>
    /\ UNCHANGED exceptBackground

\* The theme changes: draw is made anew, the effect runs again.
SetBackgroundTheme(th) ==
    /\ th # bkTheme
    /\ bkTheme' = th
    /\ bkObserved' = bkMounted
    /\ bkLastEvent' = "theme"
    /\ UNCHANGED <<bkMounted, bkBouncy, bkColor, bkClient, bkChildren>>
    /\ UNCHANGED exceptBackground

\* The layout gives the <svg> another size; the observer will report it.
LayoutBackground(client) ==
    /\ bkMounted
    /\ client # bkClient
    /\ bkClient' = client
    /\ bkObserved' = TRUE
    /\ bkLastEvent' = "layout"
    /\ UNCHANGED <<bkMounted, bkBouncy, bkColor, bkTheme, bkChildren>>
    /\ UNCHANGED exceptBackground

\* new ResizeObserver(() => { draw(); })
BackgroundObserverCallback ==
    /\ bkMounted
    /\ bkObserved
    /\ bkObserved' = FALSE
    /\ bkChildren' = draw(bkChildren, bkClient, bkColor, bkTheme)
    /\ bkLastEvent' = "observer"
    /\ UNCHANGED <<bkMounted, bkBouncy, bkColor, bkTheme, bkClient>>
    /\ UNCHANGED exceptBackground

\* setInterval(draw, 200)
BackgroundIntervalTick ==
    /\ bkMounted
    /\ bkBouncy
    /\ bkChildren' = draw(bkChildren, bkClient, bkColor, bkTheme)
    /\ bkLastEvent' = "interval"
    /\ UNCHANGED <<bkMounted, bkBouncy, bkColor, bkTheme, bkClient, bkObserved>>
    /\ UNCHANGED exceptBackground

\* Unmount: the cleanup disconnects the observer and clears the interval.
UnmountSketchyBackground ==
    /\ bkMounted
    /\ bkMounted' = FALSE
    /\ bkBouncy' = FALSE
    /\ bkColor' = ""
    /\ bkClient' = <<0, 0>>
    /\ bkObserved' = FALSE
    /\ bkChildren' = <<>>
    /\ bkLastEvent' = "unmount"
    /\ UNCHANGED bkTheme
    /\ UNCHANGED exceptBackground

NextBackground ==
    \/ \E b \in BOOLEAN, c \in BackgroundColors, client \in ClientSizes :
           MountSketchyBackground(b, c, client)
    \/ \E b \in BOOLEAN, c \in BackgroundColors : SetBackgroundProps(b, c)
    \/ \E th \in Theme : SetBackgroundTheme(th)
    \/ \E client \in ClientSizes : LayoutBackground(client)
    \/ BackgroundObserverCallback
    \/ BackgroundIntervalTick
    \/ UnmountSketchyBackground

(***************************************************************************)
(* StickyNote: the logo circle                                             *)
(*                                                                         *)
(* The logo <svg> is rendered only when logoComponent is given.  The       *)
(* effect that draws the dashed circle in it depends on [seed] alone: it   *)
(* runs after the mount and after a commit in which seed changed, and seed *)
(* changes only by the interval of a bouncy note.                          *)
(***************************************************************************)

MaxLogoSeed == 8

\* rc.circle(24, 24, 46, { stroke: 'black', strokeLineDash: [6, 6], fill: 'white', ... })
LogoCircle(seed) ==
    [ shape |-> "circle", x |-> 24, y |-> 24, diameter |-> 46,
      strokeLineDash |-> <<6, 6>>, fill |-> "white", seed |-> seed ]

\* The logo circle effect: if (logoCircleRef.current) { empty it; append the circle }
LogoCircleEffect(logo, children, seed) ==
    IF logo THEN <<LogoCircle(seed)>> ELSE children

\* Mount: first render, then the effects.
MountLogoNote(logo, b) ==
    /\ ~lgMounted
    /\ lgMounted' = TRUE
    /\ lgLogo' = logo
    /\ lgBouncy' = b
    /\ lgSeed' = 0
    /\ lgChildren' = LogoCircleEffect(logo, <<>>, 0)
    /\ lgLastEvent' = "mount"
    /\ UNCHANGED exceptLogo

\* A render with logoComponent given or taken away: React adds a new, empty
\* logo <svg> or removes the one there is; seed is the same, so the logo
\* circle effect does not run.
SetLogoComponent(logo) ==
    /\ lgMounted
    /\ logo # lgLogo
    /\ lgLogo' = logo
    /\ lgChildren' = <<>>
    /\ lgLastEvent' = "logo"
    /\ UNCHANGED <<lgMounted, lgBouncy, lgSeed>>
    /\ UNCHANGED exceptLogo

\* A render with another isBouncy: the interval effect runs, seed is the same.
SetLogoNoteBouncy(b) ==
    /\ lgMounted
    /\ b # lgBouncy
    /\ lgBouncy' = b
    /\ lgLastEvent' = "bouncy"
    /\ UNCHANGED <<lgMounted, lgLogo, lgSeed, lgChildren>>
    /\ UNCHANGED exceptLogo

\* A tick of the interval of a bouncy note: setSeed(prevSeed + 1), render,
\* the logo circle effect runs.
LogoNoteTick ==
    /\ lgMounted
    /\ lgBouncy
    /\ lgSeed < MaxLogoSeed
    /\ lgSeed' = lgSeed + 1
    /\ lgChildren' = LogoCircleEffect(lgLogo, lgChildren, lgSeed + 1)
    /\ lgLastEvent' = "tick"
    /\ UNCHANGED <<lgMounted, lgLogo, lgBouncy>>
    /\ UNCHANGED exceptLogo

UnmountLogoNote ==
    /\ lgMounted
    /\ lgMounted' = FALSE
    /\ lgLogo' = FALSE
    /\ lgBouncy' = FALSE
    /\ lgSeed' = 0
    /\ lgChildren' = <<>>
    /\ lgLastEvent' = "unmount"
    /\ UNCHANGED exceptLogo

NextLogo ==
    \/ \E logo \in BOOLEAN, b \in BOOLEAN : MountLogoNote(logo, b)
    \/ \E logo \in BOOLEAN : SetLogoComponent(logo)
    \/ \E b \in BOOLEAN : SetLogoNoteBouncy(b)
    \/ LogoNoteTick
    \/ UnmountLogoNote

(***************************************************************************)
(* useFeebyTheme without a provider                                        *)
(*                                                                         *)
(* ThemeContext is created with the default value undefined, which is what *)
(* useContext returns when no FeebyThemeProvider is above the component.   *)
(* The functions in a context value are modelled by what a call of them    *)
(* does to localStorage: "noop" for () => {}, "provider" for the setTheme  *)
(* and toggleTheme of a provider with the default storage key.             *)
(***************************************************************************)

MaxCalls == 3

\* createContext<ThemeContextType | undefined>(undefined)
NoContext == "undefined"

useFeebyThemeWithLiveFallback(context) ==
    IF context = NoContext
    THEN [theme |-> "light", setTheme |-> "provider", toggleTheme |-> "provider"]
    ELSE context

useFeebyTheme(context) ==
    IF context = NoContext
    THEN [theme |-> "light", setTheme |-> "noop", toggleTheme |-> "noop"]
    ELSE context

\* localStorage after a call of a function of the context value
StorageAfterCall(fn, store, newTheme) ==
    IF fn = "noop" THEN store ELSE StoredAfterSet(store, "feeby-theme", newTheme)

\* Mount outside every provider: the render reads the theme from the hook.
MountConsumer ==
    /\ ~csMounted
    /\ csMounted' = TRUE
    /\ csTheme' = useFeebyTheme(NoContext).theme
    /\ csCalls' = 0
    /\ csLastCall' = "none"
    /\ UNCHANGED csStorage
    /\ UNCHANGED exceptConsumer

\* The component calls the setTheme it got from the hook, and renders.
ConsumerSetTheme(newTheme) ==
    /\ csMounted
    /\ csCalls < MaxCalls
    /\ csStorage' = StorageAfterCall(useFeebyTheme(NoContext).setTheme, csStorage, newTheme)
    /\ csTheme' = useFeebyTheme(NoContext).theme
    /\ csCalls' = csCalls + 1
    /\ csLastCall' = "setTheme"
    /\ UNCHANGED csMounted
    /\ UNCHANGED exceptConsumer

\* The component calls the toggleTheme it got from the hook, and renders.
ConsumerToggleTheme ==
    /\ csMounted
    /\ csCalls < MaxCalls
    /\ csStorage' = StorageAfterCall(useFeebyTheme(NoContext).toggleTheme, csStorage,
                                     Toggled(csTheme, csTheme))
    /\ csTheme' = useFeebyTheme(NoContext).theme
    /\ csCalls' = csCalls + 1
    /\ csLastCall' = "toggleTheme"
    /\ UNCHANGED csMounted
    /\ UNCHANGED exceptConsumer

\* Another script or tab writes localStorage.
StorageWrittenElsewhere(k, v) ==
    /\ csStorage[k] # v
    /\ csStorage' = [csStorage EXCEPT ![k] = v]
    /\ UNCHANGED <<csMounted, csTheme, csCalls, csLastCall>>
    /\ UNCHANGED exceptConsumer

UnmountConsumer ==
    /\ csMounted
    /\ csMounted' = FALSE
    /\ csTheme' = "none"
    /\ csCalls' = 0
    /\ csLastCall' = "none"
    /\ UNCHANGED csStorage
    /\ UNCHANGED exceptConsumer

NextConsumer ==
    \/ MountConsumer
    \/ \E newTheme \in Theme : ConsumerSetTheme(newTheme)
    \/ ConsumerToggleTheme
    \/ \E k \in StorageKeys, v \in StoredValues : StorageWrittenElsewhere(k, v)
    \/ UnmountConsumer

(***************************************************************************)
(* Specifications: one per part of the library, the other parts idle.      *)
(***************************************************************************)

\* A provider just mounted, before its load effect; any storage content.
ThemeInit ==
    /\ provMounted = TRUE
    /\ defaultThemeProp \in DefaultThemeProps
    /\ storageKey \in StorageKeys
    /\ theme = DefaultTheme(defaultThemeProp)
    /\ ctxTheme = theme
    /\ loadPending = TRUE
    /\ storage \in [StorageKeys -> StoredValues]
    /\ called = FALSE
    /\ lastSet = [k \in StorageKeys |-> "none"]
    /\ toggleRun = NoRun
    /\ timers = {} /\ observers = {} /\ listeners = {}
    /\ tapeMounted = FALSE /\ tapeBouncy = FALSE /\ tapeSeed = 0
    /\ tapeInterval = NoHandle /\ tapeDraws = 0
    /\ pinMounted = FALSE /\ pinSeed = 0 /\ pinInterval = NoHandle
    /\ bgMounted = FALSE /\ bgBouncy = FALSE
    /\ bgObserver = NoHandle /\ bgInterval = NoHandle
    /\ boxMounted = FALSE /\ boxListener = NoHandle
    /\ strictMode = FALSE
    /\ padStrokes = <<>>
    /\ padIsDrawing = FALSE
    /\ padMode = "pen"
    /\ padCrashed = FALSE
    /\ padLastEvent = "none"
    /\ padCallbackArgs = <<>>
    /\ szMounted = FALSE
    /\ szWidth = Omitted
    /\ szHeight = Omitted
    /\ szContainer = 0
    /\ szSize = InitialSize(Omitted, Omitted)
    /\ szObserving = FALSE
    /\ stMounted = FALSE
    /\ stColor = "undefined"
    /\ stBouncy = FALSE
    /\ stTapeColor = "none"
    /\ stSeed = 0
    /\ stDrawn = "none"
    /\ cuHex = <<0, 0, 0>>
    /\ cuPercent = 0
    /\ cuOp = "none"
    /\ cuOut = <<>>
    /\ msHeap = [id \in {"tw.flexCol", "tw.itemsCenter", "own"} |->
                     IF id = "tw.flexCol" THEN tw.flexCol
                     ELSE IF id = "tw.itemsCenter" THEN tw.itemsCenter
                     ELSE OwnStyle]
    /\ msArgs = <<>>
    /\ msResult = "none"
    /\ snMounted = FALSE
    /\ snCorner = "none"
    /\ snFoldSize = <<>>
    /\ snActual = InitialFoldSize
    /\ snShown = InitialFoldSize
    /\ snEffects = {}
    /\ snSvg = <<>>
    /\ snFold = <<>>
    /\ snPainted = <<>>
    /\ jlMounted = FALSE
    /\ jlPoints = <<>>
    /\ jlSvg = <<>>
    /\ tbMounted = FALSE
    /\ tbRef = NoElement
    /\ tbSize = InitialBoxSize
    /\ tbListening = FALSE
    /\ tbFrames = 0
    /\ tbStaleFrames = 0
    /\ tbLastEvent = "none"
    /\ tbLateUpdates = 0
    /\ svKind = "none"
    /\ svProps = [width |-> 0, height |-> 0, borderRadius |-> 0, strokeWidth |-> 0]
    /\ svTheme = "light"
    /\ svTapeColor = "none"
    /\ svSeed = 0
    /\ svChildren = <<>>
    /\ bkMounted = FALSE
    /\ bkBouncy = FALSE
    /\ bkColor = ""
    /\ bkTheme = "light"
    /\ bkClient = <<0, 0>>
    /\ bkObserved = FALSE
    /\ bkChildren = <<>>
    /\ bkLastEvent = "none"
    /\ lgMounted = FALSE
    /\ lgLogo = FALSE
    /\ lgBouncy = FALSE
    /\ lgSeed = 0
    /\ lgChildren = <<>>
    /\ lgLastEvent = "none"
    /\ csMounted = FALSE
    /\ csTheme = "none"
    /\ csStorage = [k \in StorageKeys |-> "null"]
    /\ csCalls = 0
    /\ csLastCall = "none"

\* Nothing is mounted yet and the browser has nothing registered.
TimersInit ==
    /\ provMounted = FALSE
    /\ defaultThemeProp = "omitted"
    /\ storageKey = "feeby-theme"
    /\ theme = "light"
    /\ ctxTheme = "light"
    /\ loadPending = FALSE
    /\ storage = [k \in StorageKeys |-> "null"]
    /\ called = FALSE
    /\ lastSet = [k \in StorageKeys |-> "none"]
    /\ toggleRun = NoRun
    /\ timers = {} /\ observers = {} /\ listeners = {}
    /\ tapeMounted = FALSE /\ tapeBouncy = FALSE /\ tapeSeed = 0
    /\ tapeInterval = NoHandle /\ tapeDraws = 0
    /\ pinMounted = FALSE /\ pinSeed = 0 /\ pinInterval = NoHandle
    /\ bgMounted = FALSE /\ bgBouncy = FALSE
    /\ bgObserver = NoHandle /\ bgInterval = NoHandle
    /\ boxMounted = FALSE /\ boxListener = NoHandle
    /\ strictMode = FALSE
    /\ padStrokes = <<>>
    /\ padIsDrawing = FALSE
    /\ padMode = "pen"
    /\ padCrashed = FALSE
    /\ padLastEvent = "none"
    /\ padCallbackArgs = <<>>
    /\ szMounted = FALSE
    /\ szWidth = Omitted
    /\ szHeight = Omitted
    /\ szContainer = 0
    /\ szSize = InitialSize(Omitted, Omitted)
    /\ szObserving = FALSE
    /\ stMounted = FALSE
    /\ stColor = "undefined"
    /\ stBouncy = FALSE
    /\ stTapeColor = "none"
    /\ stSeed = 0
    /\ stDrawn = "none"
    /\ cuHex = <<0, 0, 0>>
    /\ cuPercent = 0
    /\ cuOp = "none"
    /\ cuOut = <<>>
    /\ msHeap = [id \in {"tw.flexCol", "tw.itemsCenter", "own"} |->
                     IF id = "tw.flexCol" THEN tw.flexCol
                     ELSE IF id = "tw.itemsCenter" THEN tw.itemsCenter
                     ELSE OwnStyle]
    /\ msArgs = <<>>
    /\ msResult = "none"
    /\ snMounted = FALSE
    /\ snCorner = "none"
    /\ snFoldSize = <<>>
    /\ snActual = InitialFoldSize
    /\ snShown = InitialFoldSize
    /\ snEffects = {}
    /\ snSvg = <<>>
    /\ snFold = <<>>
    /\ snPainted = <<>>
    /\ jlMounted = FALSE
    /\ jlPoints = <<>>
    /\ jlSvg = <<>>
    /\ tbMounted = FALSE
    /\ tbRef = NoElement
    /\ tbSize = InitialBoxSize
    /\ tbListening = FALSE
    /\ tbFrames = 0
    /\ tbStaleFrames = 0
    /\ tbLastEvent = "none"
    /\ tbLateUpdates = 0
    /\ svKind = "none"
    /\ svProps = [width |-> 0, height |-> 0, borderRadius |-> 0, strokeWidth |-> 0]
    /\ svTheme = "light"
    /\ svTapeColor = "none"
    /\ svSeed = 0
    /\ svChildren = <<>>
    /\ bkMounted = FALSE
    /\ bkBouncy = FALSE
    /\ bkColor = ""
    /\ bkTheme = "light"
    /\ bkClient = <<0, 0>>
    /\ bkObserved = FALSE
    /\ bkChildren = <<>>
    /\ bkLastEvent = "none"
    /\ lgMounted = FALSE
    /\ lgLogo = FALSE
    /\ lgBouncy = FALSE
    /\ lgSeed = 0
    /\ lgChildren = <<>>
    /\ lgLastEvent = "none"
    /\ csMounted = FALSE
    /\ csTheme = "none"
    /\ csStorage = [k \in StorageKeys |-> "null"]
    /\ csCalls = 0
    /\ csLastCall = "none"

\* A freshly mounted pad, inside or outside StrictMode.
PadInit ==
    /\ provMounted = FALSE
    /\ defaultThemeProp = "omitted"
    /\ storageKey = "feeby-theme"
    /\ theme = "light"
    /\ ctxTheme = "light"
    /\ loadPending = FALSE
    /\ storage = [k \in StorageKeys |-> "null"]
    /\ called = FALSE
    /\ lastSet = [k \in StorageKeys |-> "none"]
    /\ toggleRun = NoRun
    /\ timers = {} /\ observers = {} /\ listeners = {}
    /\ tapeMounted = FALSE /\ tapeBouncy = FALSE /\ tapeSeed = 0
    /\ tapeInterval = NoHandle /\ tapeDraws = 0
    /\ pinMounted = FALSE /\ pinSeed = 0 /\ pinInterval = NoHandle
    /\ bgMounted = FALSE /\ bgBouncy = FALSE
    /\ bgObserver = NoHandle /\ bgInterval = NoHandle
    /\ boxMounted = FALSE /\ boxListener = NoHandle
    /\ strictMode \in BOOLEAN
    /\ padStrokes = <<>>
    /\ padIsDrawing = FALSE
    /\ padMode = "pen"
    /\ padCrashed = FALSE
    /\ padLastEvent = "none"
    /\ padCallbackArgs = <<>>
    /\ szMounted = FALSE
    /\ szWidth = Omitted
    /\ szHeight = Omitted
    /\ szContainer = 0
    /\ szSize = InitialSize(Omitted, Omitted)
    /\ szObserving = FALSE
    /\ stMounted = FALSE
    /\ stColor = "undefined"
    /\ stBouncy = FALSE
    /\ stTapeColor = "none"
    /\ stSeed = 0
    /\ stDrawn = "none"
    /\ cuHex = <<0, 0, 0>>
    /\ cuPercent = 0
    /\ cuOp = "none"
    /\ cuOut = <<>>
    /\ msHeap = [id \in {"tw.flexCol", "tw.itemsCenter", "own"} |->
                     IF id = "tw.flexCol" THEN tw.flexCol
                     ELSE IF id = "tw.itemsCenter" THEN tw.itemsCenter
                     ELSE OwnStyle]
    /\ msArgs = <<>>
    /\ msResult = "none"
    /\ snMounted = FALSE
    /\ snCorner = "none"
    /\ snFoldSize = <<>>
    /\ snActual = InitialFoldSize
    /\ snShown = InitialFoldSize
    /\ snEffects = {}
    /\ snSvg = <<>>
    /\ snFold = <<>>
    /\ snPainted = <<>>
    /\ jlMounted = FALSE
    /\ jlPoints = <<>>
    /\ jlSvg = <<>>
    /\ tbMounted = FALSE
    /\ tbRef = NoElement
    /\ tbSize = InitialBoxSize
    /\ tbListening = FALSE
    /\ tbFrames = 0
    /\ tbStaleFrames = 0
    /\ tbLastEvent = "none"
    /\ tbLateUpdates = 0
    /\ svKind = "none"
    /\ svProps = [width |-> 0, height |-> 0, borderRadius |-> 0, strokeWidth |-> 0]
    /\ svTheme = "light"
    /\ svTapeColor = "none"
    /\ svSeed = 0
    /\ svChildren = <<>>
    /\ bkMounted = FALSE
    /\ bkBouncy = FALSE
    /\ bkColor = ""
    /\ bkTheme = "light"
    /\ bkClient = <<0, 0>>
    /\ bkObserved = FALSE
    /\ bkChildren = <<>>
    /\ bkLastEvent = "none"
    /\ lgMounted = FALSE
    /\ lgLogo = FALSE
    /\ lgBouncy = FALSE
    /\ lgSeed = 0
    /\ lgChildren = <<>>
    /\ lgLastEvent = "none"
    /\ csMounted = FALSE
    /\ csTheme = "none"
    /\ csStorage = [k \in StorageKeys |-> "null"]
    /\ csCalls = 0
    /\ csLastCall = "none"

\* No pad is mounted yet.
SizeInit ==
    /\ provMounted = FALSE
    /\ defaultThemeProp = "omitted"
    /\ storageKey = "feeby-theme"
    /\ theme = "light"
    /\ ctxTheme = "light"
    /\ loadPending = FALSE
    /\ storage = [k \in StorageKeys |-> "null"]
    /\ called = FALSE
    /\ lastSet = [k \in StorageKeys |-> "none"]
    /\ toggleRun = NoRun
    /\ timers = {} /\ observers = {} /\ listeners = {}
    /\ tapeMounted = FALSE /\ tapeBouncy = FALSE /\ tapeSeed = 0
    /\ tapeInterval = NoHandle /\ tapeDraws = 0
    /\ pinMounted = FALSE /\ pinSeed = 0 /\ pinInterval = NoHandle
    /\ bgMounted = FALSE /\ bgBouncy = FALSE
    /\ bgObserver = NoHandle /\ bgInterval = NoHandle
    /\ boxMounted = FALSE /\ boxListener = NoHandle
    /\ strictMode = FALSE
    /\ padStrokes = <<>>
    /\ padIsDrawing = FALSE
    /\ padMode = "pen"
    /\ padCrashed = FALSE
    /\ padLastEvent = "none"
    /\ padCallbackArgs = <<>>
    /\ szMounted = FALSE
    /\ szWidth = Omitted
    /\ szHeight = Omitted
    /\ szContainer = 0
    /\ szSize = InitialSize(Omitted, Omitted)
    /\ szObserving = FALSE
    /\ stMounted = FALSE
    /\ stColor = "undefined"
    /\ stBouncy = FALSE
    /\ stTapeColor = "none"
    /\ stSeed = 0
    /\ stDrawn = "none"
    /\ cuHex = <<0, 0, 0>>
    /\ cuPercent = 0
    /\ cuOp = "none"
    /\ cuOut = <<>>
    /\ msHeap = [id \in {"tw.flexCol", "tw.itemsCenter", "own"} |->
                     IF id = "tw.flexCol" THEN tw.flexCol
                     ELSE IF id = "tw.itemsCenter" THEN tw.itemsCenter
                     ELSE OwnStyle]
    /\ msArgs = <<>>
    /\ msResult = "none"
    /\ snMounted = FALSE
    /\ snCorner = "none"
    /\ snFoldSize = <<>>
    /\ snActual = InitialFoldSize
    /\ snShown = InitialFoldSize
    /\ snEffects = {}
    /\ snSvg = <<>>
    /\ snFold = <<>>
    /\ snPainted = <<>>
    /\ jlMounted = FALSE
    /\ jlPoints = <<>>
    /\ jlSvg = <<>>
    /\ tbMounted = FALSE
    /\ tbRef = NoElement
    /\ tbSize = InitialBoxSize
    /\ tbListening = FALSE
    /\ tbFrames = 0
    /\ tbStaleFrames = 0
    /\ tbLastEvent = "none"
    /\ tbLateUpdates = 0
    /\ svKind = "none"
    /\ svProps = [width |-> 0, height |-> 0, borderRadius |-> 0, strokeWidth |-> 0]
    /\ svTheme = "light"
    /\ svTapeColor = "none"
    /\ svSeed = 0
    /\ svChildren = <<>>
    /\ bkMounted = FALSE
    /\ bkBouncy = FALSE
    /\ bkColor = ""
    /\ bkTheme = "light"
    /\ bkClient = <<0, 0>>
    /\ bkObserved = FALSE
    /\ bkChildren = <<>>
    /\ bkLastEvent = "none"
    /\ lgMounted = FALSE
    /\ lgLogo = FALSE
    /\ lgBouncy = FALSE
    /\ lgSeed = 0
    /\ lgChildren = <<>>
    /\ lgLastEvent = "none"
    /\ csMounted = FALSE
    /\ csTheme = "none"
    /\ csStorage = [k \in StorageKeys |-> "null"]
    /\ csCalls = 0
    /\ csLastCall = "none"

\* No StickyTape is mounted yet.
StickyInit ==
    /\ provMounted = FALSE
    /\ defaultThemeProp = "omitted"
    /\ storageKey = "feeby-theme"
    /\ theme = "light"
    /\ ctxTheme = "light"
    /\ loadPending = FALSE
    /\ storage = [k \in StorageKeys |-> "null"]
    /\ called = FALSE
    /\ lastSet = [k \in StorageKeys |-> "none"]
    /\ toggleRun = NoRun
    /\ timers = {} /\ observers = {} /\ listeners = {}
    /\ tapeMounted = FALSE /\ tapeBouncy = FALSE /\ tapeSeed = 0
    /\ tapeInterval = NoHandle /\ tapeDraws = 0
    /\ pinMounted = FALSE /\ pinSeed = 0 /\ pinInterval = NoHandle
    /\ bgMounted = FALSE /\ bgBouncy = FALSE
    /\ bgObserver = NoHandle /\ bgInterval = NoHandle
    /\ boxMounted = FALSE /\ boxListener = NoHandle
    /\ strictMode = FALSE
    /\ padStrokes = <<>>
    /\ padIsDrawing = FALSE
    /\ padMode = "pen"
    /\ padCrashed = FALSE
    /\ padLastEvent = "none"
    /\ padCallbackArgs = <<>>
    /\ szMounted = FALSE
    /\ szWidth = Omitted
    /\ szHeight = Omitted
    /\ szContainer = 0
    /\ szSize = InitialSize(Omitted, Omitted)
    /\ szObserving = FALSE
    /\ stMounted = FALSE
    /\ stColor = "undefined"
    /\ stBouncy = FALSE
    /\ stTapeColor = "none"
    /\ stSeed = 0
    /\ stDrawn = "none"
    /\ cuHex = <<0, 0, 0>>
    /\ cuPercent = 0
    /\ cuOp = "none"
    /\ cuOut = <<>>
    /\ msHeap = [id \in {"tw.flexCol", "tw.itemsCenter", "own"} |->
                     IF id = "tw.flexCol" THEN tw.flexCol
                     ELSE IF id = "tw.itemsCenter" THEN tw.itemsCenter
                     ELSE OwnStyle]
    /\ msArgs = <<>>
    /\ msResult = "none"
    /\ snMounted = FALSE
    /\ snCorner = "none"
    /\ snFoldSize = <<>>
    /\ snActual = InitialFoldSize
    /\ snShown = InitialFoldSize
    /\ snEffects = {}
    /\ snSvg = <<>>
    /\ snFold = <<>>
    /\ snPainted = <<>>
    /\ jlMounted = FALSE
    /\ jlPoints = <<>>
    /\ jlSvg = <<>>
    /\ tbMounted = FALSE
    /\ tbRef = NoElement
    /\ tbSize = InitialBoxSize
    /\ tbListening = FALSE
    /\ tbFrames = 0
    /\ tbStaleFrames = 0
    /\ tbLastEvent = "none"
    /\ tbLateUpdates = 0
    /\ svKind = "none"
    /\ svProps = [width |-> 0, height |-> 0, borderRadius |-> 0, strokeWidth |-> 0]
    /\ svTheme = "light"
    /\ svTapeColor = "none"
    /\ svSeed = 0
    /\ svChildren = <<>>
    /\ bkMounted = FALSE
    /\ bkBouncy = FALSE
    /\ bkColor = ""
    /\ bkTheme = "light"
    /\ bkClient = <<0, 0>>
    /\ bkObserved = FALSE
    /\ bkChildren = <<>>
    /\ bkLastEvent = "none"
    /\ lgMounted = FALSE
    /\ lgLogo = FALSE
    /\ lgBouncy = FALSE
    /\ lgSeed = 0
    /\ lgChildren = <<>>
    /\ lgLastEvent = "none"
    /\ csMounted = FALSE
    /\ csTheme = "none"
    /\ csStorage = [k \in StorageKeys |-> "null"]
    /\ csCalls = 0
    /\ csLastCall = "none"

\* One call of darken or lighten, on any of the sample colours and any percent.
ColorInit ==
    /\ provMounted = FALSE
    /\ defaultThemeProp = "omitted"
    /\ storageKey = "feeby-theme"
    /\ theme = "light"
    /\ ctxTheme = "light"
    /\ loadPending = FALSE
    /\ storage = [k \in StorageKeys |-> "null"]
    /\ called = FALSE
    /\ lastSet = [k \in StorageKeys |-> "none"]
    /\ toggleRun = NoRun
    /\ timers = {} /\ observers = {} /\ listeners = {}
    /\ tapeMounted = FALSE /\ tapeBouncy = FALSE /\ tapeSeed = 0
    /\ tapeInterval = NoHandle /\ tapeDraws = 0
    /\ pinMounted = FALSE /\ pinSeed = 0 /\ pinInterval = NoHandle
    /\ bgMounted = FALSE /\ bgBouncy = FALSE
    /\ bgObserver = NoHandle /\ bgInterval = NoHandle
    /\ boxMounted = FALSE /\ boxListener = NoHandle
    /\ strictMode = FALSE
    /\ padStrokes = <<>>
    /\ padIsDrawing = FALSE
    /\ padMode = "pen"
    /\ padCrashed = FALSE
    /\ padLastEvent = "none"
    /\ padCallbackArgs = <<>>
    /\ szMounted = FALSE
    /\ szWidth = Omitted
    /\ szHeight = Omitted
    /\ szContainer = 0
    /\ szSize = InitialSize(Omitted, Omitted)
    /\ szObserving = FALSE
    /\ stMounted = FALSE
    /\ stColor = "undefined"
    /\ stBouncy = FALSE
    /\ stTapeColor = "none"
    /\ stSeed = 0
    /\ stDrawn = "none"
    /\ cuHex \in HexInputs
    /\ cuPercent \in Percents
    /\ cuOp = "none"
    /\ cuOut = <<>>
    /\ msHeap = [id \in {"tw.flexCol", "tw.itemsCenter", "own"} |->
                     IF id = "tw.flexCol" THEN tw.flexCol
                     ELSE IF id = "tw.itemsCenter" THEN tw.itemsCenter
                     ELSE OwnStyle]
    /\ msArgs = <<>>
    /\ msResult = "none"
    /\ snMounted = FALSE
    /\ snCorner = "none"
    /\ snFoldSize = <<>>
    /\ snActual = InitialFoldSize
    /\ snShown = InitialFoldSize
    /\ snEffects = {}
    /\ snSvg = <<>>
    /\ snFold = <<>>
    /\ snPainted = <<>>
    /\ jlMounted = FALSE
    /\ jlPoints = <<>>
    /\ jlSvg = <<>>
    /\ tbMounted = FALSE
    /\ tbRef = NoElement
    /\ tbSize = InitialBoxSize
    /\ tbListening = FALSE
    /\ tbFrames = 0
    /\ tbStaleFrames = 0
    /\ tbLastEvent = "none"
    /\ tbLateUpdates = 0
    /\ svKind = "none"
    /\ svProps = [width |-> 0, height |-> 0, borderRadius |-> 0, strokeWidth |-> 0]
    /\ svTheme = "light"
    /\ svTapeColor = "none"
    /\ svSeed = 0
    /\ svChildren = <<>>
    /\ bkMounted = FALSE
    /\ bkBouncy = FALSE
    /\ bkColor = ""
    /\ bkTheme = "light"
    /\ bkClient = <<0, 0>>
    /\ bkObserved = FALSE
    /\ bkChildren = <<>>
    /\ bkLastEvent = "none"
    /\ lgMounted = FALSE
    /\ lgLogo = FALSE
    /\ lgBouncy = FALSE
    /\ lgSeed = 0
    /\ lgChildren = <<>>
    /\ lgLastEvent = "none"
    /\ csMounted = FALSE
    /\ csTheme = "none"
    /\ csStorage = [k \in StorageKeys |-> "null"]
    /\ csCalls = 0
    /\ csLastCall = "none"

\* The module is loaded and mergeStyles has not been called.
MergeInit ==
    /\ provMounted = FALSE
    /\ defaultThemeProp = "omitted"
    /\ storageKey = "feeby-theme"
    /\ theme = "light"
    /\ ctxTheme = "light"
    /\ loadPending = FALSE
    /\ storage = [k \in StorageKeys |-> "null"]
    /\ called = FALSE
    /\ lastSet = [k \in StorageKeys |-> "none"]
    /\ toggleRun = NoRun
    /\ timers = {} /\ observers = {} /\ listeners = {}
    /\ tapeMounted = FALSE /\ tapeBouncy = FALSE /\ tapeSeed = 0
    /\ tapeInterval = NoHandle /\ tapeDraws = 0
    /\ pinMounted = FALSE /\ pinSeed = 0 /\ pinInterval = NoHandle
    /\ bgMounted = FALSE /\ bgBouncy = FALSE
    /\ bgObserver = NoHandle /\ bgInterval = NoHandle
    /\ boxMounted = FALSE /\ boxListener = NoHandle
    /\ strictMode = FALSE
    /\ padStrokes = <<>>
    /\ padIsDrawing = FALSE
    /\ padMode = "pen"
    /\ padCrashed = FALSE
    /\ padLastEvent = "none"
    /\ padCallbackArgs = <<>>
    /\ szMounted = FALSE
    /\ szWidth = Omitted
    /\ szHeight = Omitted
    /\ szContainer = 0
    /\ szSize = InitialSize(Omitted, Omitted)
    /\ szObserving = FALSE
    /\ stMounted = FALSE
    /\ stColor = "undefined"
    /\ stBouncy = FALSE
    /\ stTapeColor = "none"
    /\ stSeed = 0
    /\ stDrawn = "none"
    /\ cuHex = <<0, 0, 0>>
    /\ cuPercent = 0
    /\ cuOp = "none"
    /\ cuOut = <<>>
    /\ msHeap = [id \in {"tw.flexCol", "tw.itemsCenter", "own"} |->
                     IF id = "tw.flexCol" THEN tw.flexCol
                     ELSE IF id = "tw.itemsCenter" THEN tw.itemsCenter
                     ELSE OwnStyle]
    /\ msArgs = <<>>
    /\ msResult = "none"
    /\ snMounted = FALSE
    /\ snCorner = "none"
    /\ snFoldSize = <<>>
    /\ snActual = InitialFoldSize
    /\ snShown = InitialFoldSize
    /\ snEffects = {}
    /\ snSvg = <<>>
    /\ snFold = <<>>
    /\ snPainted = <<>>
    /\ jlMounted = FALSE
    /\ jlPoints = <<>>
    /\ jlSvg = <<>>
    /\ tbMounted = FALSE
    /\ tbRef = NoElement
    /\ tbSize = InitialBoxSize
    /\ tbListening = FALSE
    /\ tbFrames = 0
    /\ tbStaleFrames = 0
    /\ tbLastEvent = "none"
    /\ tbLateUpdates = 0
    /\ svKind = "none"
    /\ svProps = [width |-> 0, height |-> 0, borderRadius |-> 0, strokeWidth |-> 0]
    /\ svTheme = "light"
    /\ svTapeColor = "none"
    /\ svSeed = 0
    /\ svChildren = <<>>
    /\ bkMounted = FALSE
    /\ bkBouncy = FALSE
    /\ bkColor = ""
    /\ bkTheme = "light"
    /\ bkClient = <<0, 0>>
    /\ bkObserved = FALSE
    /\ bkChildren = <<>>
    /\ bkLastEvent = "none"
    /\ lgMounted = FALSE
    /\ lgLogo = FALSE
    /\ lgBouncy = FALSE
    /\ lgSeed = 0
    /\ lgChildren = <<>>
    /\ lgLastEvent = "none"
    /\ csMounted = FALSE
    /\ csTheme = "none"
    /\ csStorage = [k \in StorageKeys |-> "null"]
    /\ csCalls = 0
    /\ csLastCall = "none"

\* No StickyNote is mounted yet.
NoteInit ==
    /\ provMounted = FALSE
    /\ defaultThemeProp = "omitted"
    /\ storageKey = "feeby-theme"
    /\ theme = "light"
    /\ ctxTheme = "light"
    /\ loadPending = FALSE
    /\ storage = [k \in StorageKeys |-> "null"]
    /\ called = FALSE
    /\ lastSet = [k \in StorageKeys |-> "none"]
    /\ toggleRun = NoRun
    /\ timers = {} /\ observers = {} /\ listeners = {}
    /\ tapeMounted = FALSE /\ tapeBouncy = FALSE /\ tapeSeed = 0
    /\ tapeInterval = NoHandle /\ tapeDraws = 0
    /\ pinMounted = FALSE /\ pinSeed = 0 /\ pinInterval = NoHandle
    /\ bgMounted = FALSE /\ bgBouncy = FALSE
    /\ bgObserver = NoHandle /\ bgInterval = NoHandle
    /\ boxMounted = FALSE /\ boxListener = NoHandle
    /\ strictMode = FALSE
    /\ padStrokes = <<>>
    /\ padIsDrawing = FALSE
    /\ padMode = "pen"
    /\ padCrashed = FALSE
    /\ padLastEvent = "none"
    /\ padCallbackArgs = <<>>
    /\ szMounted = FALSE
    /\ szWidth = Omitted
    /\ szHeight = Omitted
    /\ szContainer = 0
    /\ szSize = InitialSize(Omitted, Omitted)
    /\ szObserving = FALSE
    /\ stMounted = FALSE
    /\ stColor = "undefined"
    /\ stBouncy = FALSE
    /\ stTapeColor = "none"
    /\ stSeed = 0
    /\ stDrawn = "none"
    /\ cuHex = <<0, 0, 0>>
    /\ cuPercent = 0
    /\ cuOp = "none"
    /\ cuOut = <<>>
    /\ msHeap = [id \in {"tw.flexCol", "tw.itemsCenter", "own"} |->
                     IF id = "tw.flexCol" THEN tw.flexCol
                     ELSE IF id = "tw.itemsCenter" THEN tw.itemsCenter
                     ELSE OwnStyle]
    /\ msArgs = <<>>
    /\ msResult = "none"
    /\ snMounted = FALSE
    /\ snCorner = "none"
    /\ snFoldSize = <<>>
    /\ snActual = InitialFoldSize
    /\ snShown = InitialFoldSize
    /\ snEffects = {}
    /\ snSvg = <<>>
    /\ snFold = <<>>
    /\ snPainted = <<>>
    /\ jlMounted = FALSE
    /\ jlPoints = <<>>
    /\ jlSvg = <<>>
    /\ tbMounted = FALSE
    /\ tbRef = NoElement
    /\ tbSize = InitialBoxSize
    /\ tbListening = FALSE
    /\ tbFrames = 0
    /\ tbStaleFrames = 0
    /\ tbLastEvent = "none"
    /\ tbLateUpdates = 0
    /\ svKind = "none"
    /\ svProps = [width |-> 0, height |-> 0, borderRadius |-> 0, strokeWidth |-> 0]
    /\ svTheme = "light"
    /\ svTapeColor = "none"
    /\ svSeed = 0
    /\ svChildren = <<>>
    /\ bkMounted = FALSE
    /\ bkBouncy = FALSE
    /\ bkColor = ""
    /\ bkTheme = "light"
    /\ bkClient = <<0, 0>>
    /\ bkObserved = FALSE
    /\ bkChildren = <<>>
    /\ bkLastEvent = "none"
    /\ lgMounted = FALSE
    /\ lgLogo = FALSE
    /\ lgBouncy = FALSE
    /\ lgSeed = 0
    /\ lgChildren = <<>>
    /\ lgLastEvent = "none"
    /\ csMounted = FALSE
    /\ csTheme = "none"
    /\ csStorage = [k \in StorageKeys |-> "null"]
    /\ csCalls = 0
    /\ csLastCall = "none"

\* No JourneyLine is mounted yet.
JourneyInit ==
    /\ provMounted = FALSE
    /\ defaultThemeProp = "omitted"
    /\ storageKey = "feeby-theme"
    /\ theme = "light"
    /\ ctxTheme = "light"
    /\ loadPending = FALSE
    /\ storage = [k \in StorageKeys |-> "null"]
    /\ called = FALSE
    /\ lastSet = [k \in StorageKeys |-> "none"]
    /\ toggleRun = NoRun
    /\ timers = {} /\ observers = {} /\ listeners = {}
    /\ tapeMounted = FALSE /\ tapeBouncy = FALSE /\ tapeSeed = 0
    /\ tapeInterval = NoHandle /\ tapeDraws = 0
    /\ pinMounted = FALSE /\ pinSeed = 0 /\ pinInterval = NoHandle
    /\ bgMounted = FALSE /\ bgBouncy = FALSE
    /\ bgObserver = NoHandle /\ bgInterval = NoHandle
    /\ boxMounted = FALSE /\ boxListener = NoHandle
    /\ strictMode = FALSE
    /\ padStrokes = <<>>
    /\ padIsDrawing = FALSE
    /\ padMode = "pen"
    /\ padCrashed = FALSE
    /\ padLastEvent = "none"
    /\ padCallbackArgs = <<>>
    /\ szMounted = FALSE
    /\ szWidth = Omitted
    /\ szHeight = Omitted
    /\ szContainer = 0
    /\ szSize = InitialSize(Omitted, Omitted)
    /\ szObserving = FALSE
    /\ stMounted = FALSE
    /\ stColor = "undefined"
    /\ stBouncy = FALSE
    /\ stTapeColor = "none"
    /\ stSeed = 0
    /\ stDrawn = "none"
    /\ cuHex = <<0, 0, 0>>
    /\ cuPercent = 0
    /\ cuOp = "none"
    /\ cuOut = <<>>
    /\ msHeap = [id \in {"tw.flexCol", "tw.itemsCenter", "own"} |->
                     IF id = "tw.flexCol" THEN tw.flexCol
                     ELSE IF id = "tw.itemsCenter" THEN tw.itemsCenter
                     ELSE OwnStyle]
    /\ msArgs = <<>>
    /\ msResult = "none"
    /\ snMounted = FALSE
    /\ snCorner = "none"
    /\ snFoldSize = <<>>
    /\ snActual = InitialFoldSize
    /\ snShown = InitialFoldSize
    /\ snEffects = {}
    /\ snSvg = <<>>
    /\ snFold = <<>>
    /\ snPainted = <<>>
    /\ jlMounted = FALSE
    /\ jlPoints = <<>>
    /\ jlSvg = <<>>
    /\ tbMounted = FALSE
    /\ tbRef = NoElement
    /\ tbSize = InitialBoxSize
    /\ tbListening = FALSE
    /\ tbFrames = 0
    /\ tbStaleFrames = 0
    /\ tbLastEvent = "none"
    /\ tbLateUpdates = 0
    /\ svKind = "none"
    /\ svProps = [width |-> 0, height |-> 0, borderRadius |-> 0, strokeWidth |-> 0]
    /\ svTheme = "light"
    /\ svTapeColor = "none"
    /\ svSeed = 0
    /\ svChildren = <<>>
    /\ bkMounted = FALSE
    /\ bkBouncy = FALSE
    /\ bkColor = ""
    /\ bkTheme = "light"
    /\ bkClient = <<0, 0>>
    /\ bkObserved = FALSE
    /\ bkChildren = <<>>
    /\ bkLastEvent = "none"
    /\ lgMounted = FALSE
    /\ lgLogo = FALSE
    /\ lgBouncy = FALSE
    /\ lgSeed = 0
    /\ lgChildren = <<>>
    /\ lgLastEvent = "none"
    /\ csMounted = FALSE
    /\ csTheme = "none"
    /\ csStorage = [k \in StorageKeys |-> "null"]
    /\ csCalls = 0
    /\ csLastCall = "none"

\* No TapedBox is mounted yet.
BoxInit ==
    /\ provMounted = FALSE
    /\ defaultThemeProp = "omitted"
    /\ storageKey = "feeby-theme"
    /\ theme = "light"
    /\ ctxTheme = "light"
    /\ loadPending = FALSE
    /\ storage = [k \in StorageKeys |-> "null"]
    /\ called = FALSE
    /\ lastSet = [k \in StorageKeys |-> "none"]
    /\ toggleRun = NoRun
    /\ timers = {} /\ observers = {} /\ listeners = {}
    /\ tapeMounted = FALSE /\ tapeBouncy = FALSE /\ tapeSeed = 0
    /\ tapeInterval = NoHandle /\ tapeDraws = 0
    /\ pinMounted = FALSE /\ pinSeed = 0 /\ pinInterval = NoHandle
    /\ bgMounted = FALSE /\ bgBouncy = FALSE
    /\ bgObserver = NoHandle /\ bgInterval = NoHandle
    /\ boxMounted = FALSE /\ boxListener = NoHandle
    /\ strictMode = FALSE
    /\ padStrokes = <<>>
    /\ padIsDrawing = FALSE
    /\ padMode = "pen"
    /\ padCrashed = FALSE
    /\ padLastEvent = "none"
    /\ padCallbackArgs = <<>>
    /\ szMounted = FALSE
    /\ szWidth = Omitted
    /\ szHeight = Omitted
    /\ szContainer = 0
    /\ szSize = InitialSize(Omitted, Omitted)
    /\ szObserving = FALSE
    /\ stMounted = FALSE
    /\ stColor = "undefined"
    /\ stBouncy = FALSE
    /\ stTapeColor = "none"
    /\ stSeed = 0
    /\ stDrawn = "none"
    /\ cuHex = <<0, 0, 0>>
    /\ cuPercent = 0
    /\ cuOp = "none"
    /\ cuOut = <<>>
    /\ msHeap = [id \in {"tw.flexCol", "tw.itemsCenter", "own"} |->
                     IF id = "tw.flexCol" THEN tw.flexCol
                     ELSE IF id = "tw.itemsCenter" THEN tw.itemsCenter
                     ELSE OwnStyle]
    /\ msArgs = <<>>
    /\ msResult = "none"
    /\ snMounted = FALSE
    /\ snCorner = "none"
    /\ snFoldSize = <<>>
    /\ snActual = InitialFoldSize
    /\ snShown = InitialFoldSize
    /\ snEffects = {}
    /\ snSvg = <<>>
    /\ snFold = <<>>
    /\ snPainted = <<>>
    /\ jlMounted = FALSE
    /\ jlPoints = <<>>
    /\ jlSvg = <<>>
    /\ tbMounted = FALSE
    /\ tbRef = NoElement
    /\ tbSize = InitialBoxSize
    /\ tbListening = FALSE
    /\ tbFrames = 0
    /\ tbStaleFrames = 0
    /\ tbLastEvent = "none"
    /\ tbLateUpdates = 0
    /\ svKind = "none"
    /\ svProps = [width |-> 0, height |-> 0, borderRadius |-> 0, strokeWidth |-> 0]
    /\ svTheme = "light"
    /\ svTapeColor = "none"
    /\ svSeed = 0
    /\ svChildren = <<>>
    /\ bkMounted = FALSE
    /\ bkBouncy = FALSE
    /\ bkColor = ""
    /\ bkTheme = "light"
    /\ bkClient = <<0, 0>>
    /\ bkObserved = FALSE
    /\ bkChildren = <<>>
    /\ bkLastEvent = "none"
    /\ lgMounted = FALSE
    /\ lgLogo = FALSE
    /\ lgBouncy = FALSE
    /\ lgSeed = 0
    /\ lgChildren = <<>>
    /\ lgLastEvent = "none"
    /\ csMounted = FALSE
    /\ csTheme = "none"
    /\ csStorage = [k \in StorageKeys |-> "null"]
    /\ csCalls = 0
    /\ csLastCall = "none"

\* No Tape, SketchyRectangle or StickyTape is mounted yet.
SvgInit ==
    /\ provMounted = FALSE
    /\ defaultThemeProp = "omitted"
    /\ storageKey = "feeby-theme"
    /\ theme = "light"
    /\ ctxTheme = "light"
    /\ loadPending = FALSE
    /\ storage = [k \in StorageKeys |-> "null"]
    /\ called = FALSE
    /\ lastSet = [k \in StorageKeys |-> "none"]
    /\ toggleRun = NoRun
    /\ timers = {} /\ observers = {} /\ listeners = {}
    /\ tapeMounted = FALSE /\ tapeBouncy = FALSE /\ tapeSeed = 0
    /\ tapeInterval = NoHandle /\ tapeDraws = 0
    /\ pinMounted = FALSE /\ pinSeed = 0 /\ pinInterval = NoHandle
    /\ bgMounted = FALSE /\ bgBouncy = FALSE
    /\ bgObserver = NoHandle /\ bgInterval = NoHandle
    /\ boxMounted = FALSE /\ boxListener = NoHandle
    /\ strictMode = FALSE
    /\ padStrokes = <<>>
    /\ padIsDrawing = FALSE
    /\ padMode = "pen"
    /\ padCrashed = FALSE
    /\ padLastEvent = "none"
    /\ padCallbackArgs = <<>>
    /\ szMounted = FALSE
    /\ szWidth = Omitted
    /\ szHeight = Omitted
    /\ szContainer = 0
    /\ szSize = InitialSize(Omitted, Omitted)
    /\ szObserving = FALSE
    /\ stMounted = FALSE
    /\ stColor = "undefined"
    /\ stBouncy = FALSE
    /\ stTapeColor = "none"
    /\ stSeed = 0
    /\ stDrawn = "none"
    /\ cuHex = <<0, 0, 0>>
    /\ cuPercent = 0
    /\ cuOp = "none"
    /\ cuOut = <<>>
    /\ msHeap = [id \in {"tw.flexCol", "tw.itemsCenter", "own"} |->
                     IF id = "tw.flexCol" THEN tw.flexCol
                     ELSE IF id = "tw.itemsCenter" THEN tw.itemsCenter
                     ELSE OwnStyle]
    /\ msArgs = <<>>
    /\ msResult = "none"
    /\ snMounted = FALSE
    /\ snCorner = "none"
    /\ snFoldSize = <<>>
    /\ snActual = InitialFoldSize
    /\ snShown = InitialFoldSize
    /\ snEffects = {}
    /\ snSvg = <<>>
    /\ snFold = <<>>
    /\ snPainted = <<>>
    /\ jlMounted = FALSE
    /\ jlPoints = <<>>
    /\ jlSvg = <<>>
    /\ tbMounted = FALSE
    /\ tbRef = NoElement
    /\ tbSize = InitialBoxSize
    /\ tbListening = FALSE
    /\ tbFrames = 0
    /\ tbStaleFrames = 0
    /\ tbLastEvent = "none"
    /\ tbLateUpdates = 0
    /\ svKind = "none"
    /\ svProps = [width |-> 0, height |-> 0, borderRadius |-> 0, strokeWidth |-> 0]
    /\ svTheme = "light"
    /\ svTapeColor = "none"
    /\ svSeed = 0
    /\ svChildren = <<>>
    /\ bkMounted = FALSE
    /\ bkBouncy = FALSE
    /\ bkColor = ""
    /\ bkTheme = "light"
    /\ bkClient = <<0, 0>>
    /\ bkObserved = FALSE
    /\ bkChildren = <<>>
    /\ bkLastEvent = "none"
    /\ lgMounted = FALSE
    /\ lgLogo = FALSE
    /\ lgBouncy = FALSE
    /\ lgSeed = 0
    /\ lgChildren = <<>>
    /\ lgLastEvent = "none"
    /\ csMounted = FALSE
    /\ csTheme = "none"
    /\ csStorage = [k \in StorageKeys |-> "null"]
    /\ csCalls = 0
    /\ csLastCall = "none"

\* No SketchyBackground is mounted yet.
BackgroundInit ==
    /\ provMounted = FALSE
    /\ defaultThemeProp = "omitted"
    /\ storageKey = "feeby-theme"
    /\ theme = "light"
    /\ ctxTheme = "light"
    /\ loadPending = FALSE
    /\ storage = [k \in StorageKeys |-> "null"]
    /\ called = FALSE
    /\ lastSet = [k \in StorageKeys |-> "none"]
    /\ toggleRun = NoRun
    /\ timers = {} /\ observers = {} /\ listeners = {}
    /\ tapeMounted = FALSE /\ tapeBouncy = FALSE /\ tapeSeed = 0
    /\ tapeInterval = NoHandle /\ tapeDraws = 0
    /\ pinMounted = FALSE /\ pinSeed = 0 /\ pinInterval = NoHandle
    /\ bgMounted = FALSE /\ bgBouncy = FALSE
    /\ bgObserver = NoHandle /\ bgInterval = NoHandle
    /\ boxMounted = FALSE /\ boxListener = NoHandle
    /\ strictMode = FALSE
    /\ padStrokes = <<>>
    /\ padIsDrawing = FALSE
    /\ padMode = "pen"
    /\ padCrashed = FALSE
    /\ padLastEvent = "none"
    /\ padCallbackArgs = <<>>
    /\ szMounted = FALSE
    /\ szWidth = Omitted
    /\ szHeight = Omitted
    /\ szContainer = 0
    /\ szSize = InitialSize(Omitted, Omitted)
    /\ szObserving = FALSE
    /\ stMounted = FALSE
    /\ stColor = "undefined"
    /\ stBouncy = FALSE
    /\ stTapeColor = "none"
    /\ stSeed = 0
    /\ stDrawn = "none"
    /\ cuHex = <<0, 0, 0>>
    /\ cuPercent = 0
    /\ cuOp = "none"
    /\ cuOut = <<>>
    /\ msHeap = [id \in {"tw.flexCol", "tw.itemsCenter", "own"} |->
                     IF id = "tw.flexCol" THEN tw.flexCol
                     ELSE IF id = "tw.itemsCenter" THEN tw.itemsCenter
                     ELSE OwnStyle]
    /\ msArgs = <<>>
    /\ msResult = "none"
    /\ snMounted = FALSE
    /\ snCorner = "none"
    /\ snFoldSize = <<>>
    /\ snActual = InitialFoldSize
    /\ snShown = InitialFoldSize
    /\ snEffects = {}
    /\ snSvg = <<>>
    /\ snFold = <<>>
    /\ snPainted = <<>>
    /\ jlMounted = FALSE
    /\ jlPoints = <<>>
    /\ jlSvg = <<>>
    /\ tbMounted = FALSE
    /\ tbRef = NoElement
    /\ tbSize = InitialBoxSize
    /\ tbListening = FALSE
    /\ tbFrames = 0
    /\ tbStaleFrames = 0
    /\ tbLastEvent = "none"
    /\ tbLateUpdates = 0
    /\ svKind = "none"
    /\ svProps = [width |-> 0, height |-> 0, borderRadius |-> 0, strokeWidth |-> 0]
    /\ svTheme = "light"
    /\ svTapeColor = "none"
    /\ svSeed = 0
    /\ svChildren = <<>>
    /\ bkMounted = FALSE
    /\ bkBouncy = FALSE
    /\ bkColor = ""
    /\ bkTheme = "light"
    /\ bkClient = <<0, 0>>
    /\ bkObserved = FALSE
    /\ bkChildren = <<>>
    /\ bkLastEvent = "none"
    /\ lgMounted = FALSE
    /\ lgLogo = FALSE
    /\ lgBouncy = FALSE
    /\ lgSeed = 0
    /\ lgChildren = <<>>
    /\ lgLastEvent = "none"
    /\ csMounted = FALSE
    /\ csTheme = "none"
    /\ csStorage = [k \in StorageKeys |-> "null"]
    /\ csCalls = 0
    /\ csLastCall = "none"

\* No StickyNote is mounted yet.
LogoInit ==
    /\ provMounted = FALSE
    /\ defaultThemeProp = "omitted"
    /\ storageKey = "feeby-theme"
    /\ theme = "light"
    /\ ctxTheme = "light"
    /\ loadPending = FALSE
    /\ storage = [k \in StorageKeys |-> "null"]
    /\ called = FALSE
    /\ lastSet = [k \in StorageKeys |-> "none"]
    /\ toggleRun = NoRun
    /\ timers = {} /\ observers = {} /\ listeners = {}
    /\ tapeMounted = FALSE /\ tapeBouncy = FALSE /\ tapeSeed = 0
    /\ tapeInterval = NoHandle /\ tapeDraws = 0
    /\ pinMounted = FALSE /\ pinSeed = 0 /\ pinInterval = NoHandle
    /\ bgMounted = FALSE /\ bgBouncy = FALSE
    /\ bgObserver = NoHandle /\ bgInterval = NoHandle
    /\ boxMounted = FALSE /\ boxListener = NoHandle
    /\ strictMode = FALSE
    /\ padStrokes = <<>>
    /\ padIsDrawing = FALSE
    /\ padMode = "pen"
    /\ padCrashed = FALSE
    /\ padLastEvent = "none"
    /\ padCallbackArgs = <<>>
    /\ szMounted = FALSE
    /\ szWidth = Omitted
    /\ szHeight = Omitted
    /\ szContainer = 0
    /\ szSize = InitialSize(Omitted, Omitted)
    /\ szObserving = FALSE
    /\ stMounted = FALSE
    /\ stColor = "undefined"
    /\ stBouncy = FALSE
    /\ stTapeColor = "none"
    /\ stSeed = 0
    /\ stDrawn = "none"
    /\ cuHex = <<0, 0, 0>>
    /\ cuPercent = 0
    /\ cuOp = "none"
    /\ cuOut = <<>>
    /\ msHeap = [id \in {"tw.flexCol", "tw.itemsCenter", "own"} |->
                     IF id = "tw.flexCol" THEN tw.flexCol
                     ELSE IF id = "tw.itemsCenter" THEN tw.itemsCenter
                     ELSE OwnStyle]
    /\ msArgs = <<>>
    /\ msResult = "none"
    /\ snMounted = FALSE
    /\ snCorner = "none"
    /\ snFoldSize = <<>>
    /\ snActual = InitialFoldSize
    /\ snShown = InitialFoldSize
    /\ snEffects = {}
    /\ snSvg = <<>>
    /\ snFold = <<>>
    /\ snPainted = <<>>
    /\ jlMounted = FALSE
    /\ jlPoints = <<>>
    /\ jlSvg = <<>>
    /\ tbMounted = FALSE
    /\ tbRef = NoElement
    /\ tbSize = InitialBoxSize
    /\ tbListening = FALSE
    /\ tbFrames = 0
    /\ tbStaleFrames = 0
    /\ tbLastEvent = "none"
    /\ tbLateUpdates = 0
    /\ svKind = "none"
    /\ svProps = [width |-> 0, height |-> 0, borderRadius |-> 0, strokeWidth |-> 0]
    /\ svTheme = "light"
    /\ svTapeColor = "none"
    /\ svSeed = 0
    /\ svChildren = <<>>
    /\ bkMounted = FALSE
    /\ bkBouncy = FALSE
    /\ bkColor = ""
    /\ bkTheme = "light"
    /\ bkClient = <<0, 0>>
    /\ bkObserved = FALSE
    /\ bkChildren = <<>>
    /\ bkLastEvent = "none"
    /\ lgMounted = FALSE
    /\ lgLogo = FALSE
    /\ lgBouncy = FALSE
    /\ lgSeed = 0
    /\ lgChildren = <<>>
    /\ lgLastEvent = "none"
    /\ csMounted = FALSE
    /\ csTheme = "none"
    /\ csStorage = [k \in StorageKeys |-> "null"]
    /\ csCalls = 0
    /\ csLastCall = "none"

\* The component is not mounted yet and localStorage is empty.
ConsumerInit ==
    /\ provMounted = FALSE
    /\ defaultThemeProp = "omitted"
    /\ storageKey = "feeby-theme"
    /\ theme = "light"
    /\ ctxTheme = "light"
    /\ loadPending = FALSE
    /\ storage = [k \in StorageKeys |-> "null"]
    /\ called = FALSE
    /\ lastSet = [k \in StorageKeys |-> "none"]
    /\ toggleRun = NoRun
    /\ timers = {} /\ observers = {} /\ listeners = {}
    /\ tapeMounted = FALSE /\ tapeBouncy = FALSE /\ tapeSeed = 0
    /\ tapeInterval = NoHandle /\ tapeDraws = 0
    /\ pinMounted = FALSE /\ pinSeed = 0 /\ pinInterval = NoHandle
    /\ bgMounted = FALSE /\ bgBouncy = FALSE
    /\ bgObserver = NoHandle /\ bgInterval = NoHandle
    /\ boxMounted = FALSE /\ boxListener = NoHandle
    /\ strictMode = FALSE
    /\ padStrokes = <<>>
    /\ padIsDrawing = FALSE
    /\ padMode = "pen"
    /\ padCrashed = FALSE
    /\ padLastEvent = "none"
    /\ padCallbackArgs = <<>>
    /\ szMounted = FALSE
    /\ szWidth = Omitted
    /\ szHeight = Omitted
    /\ szContainer = 0
    /\ szSize = InitialSize(Omitted, Omitted)
    /\ szObserving = FALSE
    /\ stMounted = FALSE
    /\ stColor = "undefined"
    /\ stBouncy = FALSE
    /\ stTapeColor = "none"
    /\ stSeed = 0
    /\ stDrawn = "none"
    /\ cuHex = <<0, 0, 0>>
    /\ cuPercent = 0
    /\ cuOp = "none"
    /\ cuOut = <<>>
    /\ msHeap = [id \in {"tw.flexCol", "tw.itemsCenter", "own"} |->
                     IF id = "tw.flexCol" THEN tw.flexCol
                     ELSE IF id = "tw.itemsCenter" THEN tw.itemsCenter
                     ELSE OwnStyle]
    /\ msArgs = <<>>
    /\ msResult = "none"
    /\ snMounted = FALSE
    /\ snCorner = "none"
    /\ snFoldSize = <<>>
    /\ snActual = InitialFoldSize
    /\ snShown = InitialFoldSize
    /\ snEffects = {}
    /\ snSvg = <<>>
    /\ snFold = <<>>
    /\ snPainted = <<>>
    /\ jlMounted = FALSE
    /\ jlPoints = <<>>
    /\ jlSvg = <<>>
    /\ tbMounted = FALSE
    /\ tbRef = NoElement
    /\ tbSize = InitialBoxSize
    /\ tbListening = FALSE
    /\ tbFrames = 0
    /\ tbStaleFrames = 0
    /\ tbLastEvent = "none"
    /\ tbLateUpdates = 0
    /\ svKind = "none"
    /\ svProps = [width |-> 0, height |-> 0, borderRadius |-> 0, strokeWidth |-> 0]
    /\ svTheme = "light"
    /\ svTapeColor = "none"
    /\ svSeed = 0
    /\ svChildren = <<>>
    /\ bkMounted = FALSE
    /\ bkBouncy = FALSE
    /\ bkColor = ""
    /\ bkTheme = "light"
    /\ bkClient = <<0, 0>>
    /\ bkObserved = FALSE
    /\ bkChildren = <<>>
    /\ bkLastEvent = "none"
    /\ lgMounted = FALSE
    /\ lgLogo = FALSE
    /\ lgBouncy = FALSE
    /\ lgSeed = 0
    /\ lgChildren = <<>>
    /\ lgLastEvent = "none"
    /\ csMounted = FALSE
    /\ csTheme = "none"
    /\ csStorage = [k \in StorageKeys |-> "null"]
    /\ csCalls = 0
    /\ csLastCall = "none"

SpecTheme == ThemeInit /\ [][NextTheme]_vars
SpecTimers == TimersInit /\ [][NextTimers]_vars
SpecPad == PadInit /\ [][NextPad]_vars
SpecSize == SizeInit /\ [][NextSize]_vars
SpecSticky == StickyInit /\ [][NextSticky]_vars
SpecColor == ColorInit /\ [][NextColor]_vars
SpecMerge == MergeInit /\ [][NextMerge]_vars
SpecNote == NoteInit /\ [][NextNote]_vars
SpecJourney == JourneyInit /\ [][NextJourney]_vars
SpecBox == BoxInit /\ [][NextBox]_vars
SpecSvg == SvgInit /\ [][NextSvg]_vars
SpecBackground == BackgroundInit /\ [][NextBackground]_vars
SpecLogo == LogoInit /\ [][NextLogo]_vars
SpecConsumer == ConsumerInit /\ [][NextConsumer]_vars

(***************************************************************************)
(* Properties of the theme provider                                        *)
(***************************************************************************)

\* C1: on a mounted provider with a fixed storageKey, once setTheme or
\* toggleTheme has been called, the value stored under storageKey equals the
\* provider's current theme.
C1_StorageMirrorsTheme ==
    (provMounted /\ called) => storage[storageKey] = theme

C1_Witness ==
    /\ provMounted /\ called /\ ~loadPending
    /\ storageKey = "my-app-theme"
    /\ storage[storageKey] = "dark" /\ theme = "dark"
    /\ DefaultTheme(defaultThemeProp) = "light"

\* C2: a theme set under a storage key survives a reload: on a mount with that
\* key, once the load effect has run (and before any new call), the theme is
\* the last theme that was set under the key, whatever defaultTheme is.
C2_ThemePersistsAcrossReload ==
    (provMounted /\ ~loadPending /\ ~called /\ lastSet[storageKey] # "none")
        => theme = lastSet[storageKey]

C2_Witness ==
    /\ provMounted /\ ~loadPending /\ ~called
    /\ lastSet[storageKey] = "dark"
    /\ theme = "dark"
    /\ defaultThemeProp = "light"

\* C3: the theme of a mounted provider, and the theme its consumers read, is
\* always 'light' or 'dark', whatever the storage holds under storageKey.
C3_ThemeIsLightOrDark ==
    provMounted => (theme \in Theme /\ ctxTheme \in Theme)

C3_Witness ==
    /\ provMounted /\ ~loadPending /\ ~called
    /\ storage[storageKey] = "system"
    /\ theme \in Theme

\* C4: after n consecutive toggleTheme calls the theme differs from the theme
\* the run started with exactly when n is odd, also when several calls are
\* made before the provider re-renders.
C4_ToggleParity ==
    (provMounted /\ toggleRun.start # "none")
        => ((theme # toggleRun.start) <=> toggleRun.odd)

\* C5: mounting writes nothing to the storage and starts from defaultTheme
\* ('light' when omitted); the load effect, finding no value or a value other
\* than 'light' and 'dark' under storageKey, leaves theme and storage as they are.
C5_InvalidStorageKeepsDefault ==
    [][ /\ (\E d \in DefaultThemeProps, k \in StorageKeys : MountProvider(d, k))
            => (theme' = DefaultTheme(defaultThemeProp') /\ storage' = storage)
        /\ (LoadEffect /\ storage[storageKey] \notin Theme)
            => (theme' = theme /\ storage' = storage) ]_vars

C5_Witness ==
    /\ provMounted /\ ~loadPending /\ ~called
    /\ storage[storageKey] \notin Theme
    /\ defaultThemeProp = "dark"
    /\ theme = "dark"

(***************************************************************************)
(* Properties of the seed intervals and the browser registrations          *)
(***************************************************************************)

\* C6: a mounted Tape (and each component sharing its seed effect) has a 150 ms
\* interval registered exactly while isBouncy is true; every tick of it raises
\* the seed by exactly 1 and runs the draw effect once; while isBouncy is
\* false the seed of the mounted component does not change.
C6_BouncySeedTicks ==
    /\ [](tapeMounted =>
            (tapeBouncy <=> \E t \in timers : t.owner = "Tape" /\ t.period = 150))
    /\ [][ /\ TapeTick => (tapeBouncy /\ tapeSeed' = tapeSeed + 1
                                      /\ tapeDraws' = tapeDraws + 1)
           /\ (tapeMounted /\ tapeMounted' /\ ~tapeBouncy) => tapeSeed' = tapeSeed ]_vars

C6_Witness ==
    tapeMounted /\ ~tapeBouncy /\ tapeSeed = 2 /\ tapeDraws = 3

\* C7: a component never has more than one interval registered, and an
\* unmounted component has no interval, resize observer or window resize
\* listener left in the browser's registries.
C7_NoLeakedRegistrations ==
    /\ \A o \in {"Tape", "PinnedNote", "SketchyBackground"} :
           Cardinality(OwnedBy(timers, o)) <= 1
    /\ ~tapeMounted => OwnedBy(timers, "Tape") = {}
    /\ ~pinMounted => OwnedBy(timers, "PinnedNote") = {}
    /\ ~bgMounted => /\ OwnedBy(timers, "SketchyBackground") = {}
                     /\ OwnedBy(observers, "SketchyBackground") = {}
    /\ ~boxMounted => OwnedBy(listeners, "TapedBox") = {}

C7_Witness ==
    /\ ~tapeMounted /\ tapeSeed > 0
    /\ ~bgMounted /\ bgBouncy
    /\ ~boxMounted
    /\ pinMounted /\ pinSeed > 0
    /\ timers = {[id |-> pinInterval, owner |-> "PinnedNote", period |-> 150]}

\* C8: a PinnedNote, which has no bouncy option, keeps its initial seed for as
\* long as it is mounted.
C8_PinnedNoteKeepsSeed ==
    pinMounted => pinSeed = 0

(***************************************************************************)
(* Properties of the DoodlePad                                             *)
(***************************************************************************)

\* C9: mouse-down appends exactly one stroke at the end of the sequence,
\* holding the single pressed point and the tool mode selected at that
\* moment; the strokes before it are as they were.
C9_MouseDownAppendsStroke ==
    [][ \A p \in PadPoints : handleMouseDown(p) =>
            /\ Len(padStrokes') = Len(padStrokes) + 1
            /\ SubSeq(padStrokes', 1, Len(padStrokes)) = padStrokes
            /\ padStrokes'[Len(padStrokes')] = [points |-> <<p>>, mode |-> padMode] ]_vars

C9_Witness ==
    /\ padLastEvent = "down"
    /\ Len(padStrokes) = 2
    /\ padStrokes[1].mode = "pen" /\ Len(padStrokes[1].points) = 2
    /\ padStrokes[2] = [points |-> <<<<3, 4>>>>, mode |-> "eraser"]

\* C10: mouse-move appends exactly one point to the last stroke, and changes
\* no other stroke, when a mouse-down has occurred with no mouse-up or
\* mouse-leave since; otherwise it leaves the stroke sequence unchanged.
C10_MouseMoveAppendsOnePoint ==
    [][ \A p \in PadPoints : handleMouseMove(p) =>
            IF padIsDrawing
            THEN /\ Len(padStrokes) > 0
                 /\ padStrokes' =
                        [padStrokes EXCEPT ![Len(padStrokes)].points = Append(@, p)]
            ELSE padStrokes' = padStrokes ]_vars

\* C11: Clear empties the stroke sequence from any state and leaves the
\* selected tool as it is; the sequence then stays empty until the next
\* mouse-down, which yields a sequence of exactly one stroke.
C11_ClearEmptiesStrokes ==
    [][ /\ handleClear => (padStrokes' = <<>> /\ padMode' = padMode)
        /\ (padStrokes = <<>> /\ ~(\E p \in PadPoints : handleMouseDown(p)))
               => padStrokes' = <<>>
        /\ \A p \in PadPoints : (handleMouseDown(p) /\ padStrokes = <<>>)
               => Len(padStrokes') = 1 ]_vars

C11_Witness ==
    /\ padLastEvent = "clear"
    /\ padStrokes = <<>>
    /\ padMode = "eraser"
    /\ padIsDrawing

\* C12: onStrokesChange is called once, with the stroke sequence of that
\* moment, after a mouse-down, a mouse-move that changes the strokes and a
\* Clear; it is not called after a mouse-up, a mouse-leave, a tool switch or a
\* mouse-move that leaves the strokes unchanged.
C12_CallbackFollowsStrokes ==
    [][ /\ (padLastEvent' \in {"down", "clear"}) => padCallbackArgs' = <<padStrokes'>>
        /\ (padLastEvent' = "move") =>
               padCallbackArgs' = IF padStrokes' # padStrokes THEN <<padStrokes'>> ELSE <<>>
        /\ (padLastEvent' \in {"up", "leave", "tool"}) => padCallbackArgs' = <<>> ]_vars

C12_Witness ==
    /\ padLastEvent = "move"
    /\ Len(padStrokes) = 2
    /\ Len(padStrokes[2].points) = 2
    /\ padCallbackArgs = <<padStrokes>>

\* C20: switching the tool, also in the middle of a drag, leaves the stroke
\* sequence as it is, and no step changes the mode of a stroke that stays in
\* the sequence.
C20_StrokeModeFixed ==
    [][ /\ (\E m \in PadModes : setMode(m)) => padStrokes' = padStrokes
        /\ \A i \in 1..Len(padStrokes) :
               i <= Len(padStrokes') => padStrokes'[i].mode = padStrokes[i].mode ]_vars

C20_Witness ==
    /\ padLastEvent = "tool"
    /\ padIsDrawing
    /\ padMode = "eraser"
    /\ Len(padStrokes) = 2
    /\ padStrokes[2].mode = "pen"
    /\ padStrokes[1].mode = "eraser"

\* C13: the canvas of a mounted pad has the width prop as its width when the
\* prop is given and the container's width otherwise, and the height prop as
\* its height when that prop is given and 0.8 times the canvas width
\* otherwise, in each of the four combinations of given and omitted props.
C13_CanvasSizeRule ==
    szMounted =>
        /\ szSize.width = (IF szWidth # Omitted THEN szWidth ELSE szContainer)
        /\ szSize.height = (IF szHeight # Omitted THEN szHeight
                            ELSE DefaultHeight(szSize.width))

(***************************************************************************)
(* Properties of the StickyTape                                            *)
(***************************************************************************)

\* C14: a mounted StickyTape is drawn in the colour of its color prop when the
\* prop is provided, also after the prop changed, and in one of the six
\* built-in pastel colours when it is not provided.
C14_TapeDrawnInColorProp ==
    stMounted =>
        IF stColor # "undefined"
        THEN stDrawn = stColor
        ELSE stDrawn \in {tapeColors[i] : i \in 1..Len(tapeColors)}

(***************************************************************************)
(* Properties of the utility functions                                     *)
(***************************************************************************)

\* C15: for a hex colour and a percent in 0..100, darken and lighten return
\* three channels of two hex digits each (0..255); darken raises no channel
\* and gives 000000 at percent 100, lighten lowers no channel, and at percent
\* 0 both return the colour they were given.
C15_DarkenLightenInRange ==
    cuOp # "none" =>
        LET in == ExpandShort(StripHash(cuHex))
        IN  /\ Len(cuOut) = 6
            /\ \A i \in 1..6 : cuOut[i] \in HexDigits
            /\ \A i \in 1..3 :
                   /\ ParseChannel(cuOut, i) \in 0..255
                   /\ cuOp = "darken" => ParseChannel(cuOut, i) <= ParseChannel(in, i)
                   /\ cuOp = "lighten" => ParseChannel(cuOut, i) >= ParseChannel(in, i)
            /\ (cuOp = "darken" /\ cuPercent = 100) => cuOut = <<0, 0, 0, 0, 0, 0>>
            /\ cuPercent = 0 => cuOut = in

C15_Witness ==
    /\ cuOp = "lighten"
    /\ cuPercent = 50
    /\ cuHex = <<Hash, 12, 8, 8, 0, 1, 1>>
    /\ cuOut = <<15, 15, 12, 0, 1, 9>>

\* C16: mergeStyles returns a new object, in which each property has the
\* value of the last defined argument that has it; undefined arguments are
\* skipped; no argument is modified, and the tw constants are as they were
\* after any sequence of calls.
C16_MergeStylesIsPure ==
    /\ [](msResult # "none" =>
            LET defined == {i \in 1..Len(msArgs) : msArgs[i] # "undefined"}
                has(i, k) == k \in DOMAIN msHeap[msArgs[i]]
                keys == UNION {DOMAIN msHeap[msArgs[i]] : i \in defined}
                last(k) == CHOOSE i \in defined :
                               has(i, k) /\ \A j \in defined : has(j, k) => j <= i
            IN  /\ \A i \in 1..Len(msArgs) : msArgs[i] # msResult
                /\ msHeap[msResult] = [k \in keys |-> msHeap[msArgs[last(k)]][k]]
                /\ msHeap["tw.flexCol"] = tw.flexCol
                /\ msHeap["tw.itemsCenter"] = tw.itemsCenter
                /\ msHeap["own"] = OwnStyle)
    /\ [][ \A id \in DOMAIN msHeap : id # "prev" =>
              msHeap'[Renamed(id)] = msHeap[id] ]_vars

C16_Witness ==
    /\ msArgs = <<"prev", "tw.flexCol">>
    /\ msHeap["prev"] = [display |-> "block", alignItems |-> "flex-end"]
    /\ msHeap[msResult] = [display |-> "flex", alignItems |-> "flex-end", flexDirection |-> "column"]

(***************************************************************************)
(* Properties of the StickyNote                                            *)
(*                                                                         *)
(* The shapes are read off the paths: a corner of the note is cut when the *)
(* outline has a straight segment between the points at distance d from    *)
(* the corner on its two edges, and rounded when it has an arc between the *)
(* points at distance borderRadius.                                        *)
(***************************************************************************)

\* The points at distance d from corner c of the note on its horizontal and
\* its vertical edge, and the point d from both; the edges lie inset from
\* the note's box (by the half stroke width for the outline, by 0 for the child).
AlongEdges(c, d, inset) ==
    LET left == c \in {"topLeft", "bottomLeft"}
        top == c \in {"topLeft", "topRight"}
        cx == IF left THEN inset ELSE NoteWidth - inset
        cy == IF top THEN inset ELSE NoteHeight - inset
        hx == IF left THEN cx + d ELSE cx - d
        vy == IF top THEN cy + d ELSE cy - d
    IN  [hor |-> <<hx, cy>>, ver |-> <<cx, vy>>, inner |-> <<hx, vy>>]

\* The segments of a path: Z closes it with a straight segment to its start.
Segments(path) ==
    {[ends |-> {path[i].to, IF path[i + 1].op = "Z" THEN path[1].to ELSE path[i + 1].to},
      arc |-> path[i + 1].op = "A"] : i \in 1..(Len(path) - 1)}

HasCut(path, c, d) ==
    LET e == AlongEdges(c, d, 1)
    IN  \E g \in Segments(path) : ~g.arc /\ g.ends = {e.hor, e.ver}

HasArc(path, c) ==
    LET e == AlongEdges(c, borderRadius, 1)
    IN  \E g \in Segments(path) : g.arc /\ g.ends = {e.hor, e.ver}

\* The fold triangle at corner c: from one edge over the inner point to the other edge.
IsTriangle(path, c, d) ==
    LET e == AlongEdges(c, d, 1)
    IN  /\ Len(path) = 3
        /\ path[2].to = e.inner
        /\ {path[1].to, path[3].to} = {e.hor, e.ver}

\* The crease of a FoldedCorner child, in the note's coordinates: the
\* diagonal of its box that joins the two edges of corner c at distance d.
IsCrease(fold, c, d) ==
    LET e == AlongEdges(c, d, 0)
        ox == IF fold.at.horizontal = "left" THEN 0 ELSE NoteWidth - fold.size
        oy == IF fold.at.vertical = "top" THEN 0 ELSE NoteHeight - fold.size
    IN  /\ Len(fold.svg) = 1
        /\ Len(fold.svg[1]) = 2
        /\ {<<ox + fold.svg[1][i].to[1], oy + fold.svg[1][i].to[2]>> : i \in 1..2}
               = {e.hor, e.ver}

\* C17: once its effects have run, a note with foldedCorner at one of the four
\* corners shows the outline cut at that corner and rounded at the other
\* three, the fold triangle at that corner and the FoldedCorner crease at
\* that corner; a note with foldedCorner 'none' shows an outline with four
\* rounded corners, nothing else in its SVG, and no FoldedCorner.
C17_FoldAtOneCorner ==
    (snMounted /\ snEffects = {}) =>
        IF snCorner \in Corners
        THEN /\ Len(snSvg) = 2
             /\ \A c \in Corners :
                    /\ HasCut(snSvg[1], c, snShown) <=> c = snCorner
                    /\ HasArc(snSvg[1], c) <=> c # snCorner
             /\ IsTriangle(snSvg[2], snCorner, snShown)
             /\ snFold # <<>>
             /\ IsCrease(snFold[1], snCorner, snShown)
        ELSE /\ Len(snSvg) = 1
             /\ \A c \in Corners : HasArc(snSvg[1], c) /\ ~HasCut(snSvg[1], c, snShown)
             /\ snFold = <<>>

C17_Witness ==
    /\ snMounted /\ snEffects = {}
    /\ snCorner = "bottomLeft"
    /\ snFoldSize = <<40>>
    /\ snShown = 40
    /\ Len(snSvg) = 2
    /\ snFold # <<>>

\* C19: with a foldSize prop and a folded corner, every paint shows the cut
\* of the outline, the fold triangle and the crease with size foldSize; a
\* paint made before a shape is drawn at all is not counted against it.
C19_FoldSizeInEveryPaint ==
    (snMounted /\ snPainted # <<>> /\ snFoldSize # <<>> /\ snCorner \in Corners) =>
        LET shown == snPainted[1]
            size == snFoldSize[1]
        IN  /\ Len(shown.svg) >= 1 => HasCut(shown.svg[1], snCorner, size)
            /\ Len(shown.svg) >= 2 => IsTriangle(shown.svg[2], snCorner, size)
            /\ (shown.fold # <<>> /\ shown.fold[1].svg # <<>>)
                   => IsCrease(shown.fold[1], snCorner, size)

(***************************************************************************)
(* Properties of the JourneyLine                                           *)
(***************************************************************************)

\* C18: for n >= 2 points the path starts at the first point and has exactly
\* n-1 cubic segments, the i-th ending at the (i+1)-th point of the list;
\* the first control point of a segment is pushed to one side and the second
\* to the other, and the side alternates from each segment to the next.
C18_JourneyPathThroughPoints ==
    (jlMounted /\ Len(jlPoints) >= 2) =>
        /\ Len(jlSvg) = 1
        /\ LET path == jlSvg[1]
               n == Len(jlPoints)
               push1(i) == path.curves[i].c1.x
                               - (jlPoints[i].x + (jlPoints[i + 1].x - jlPoints[i].x) \div 4)
               push2(i) == path.curves[i].c2.x
                               - (jlPoints[i + 1].x - (jlPoints[i + 1].x - jlPoints[i].x) \div 4)
           IN  /\ path.start = jlPoints[1]
               /\ Len(path.curves) = n - 1
               /\ \A i \in 1..(n - 1) :
                      /\ path.curves[i].to = jlPoints[i + 1]
                      /\ push1(i) # 0
                      /\ (push1(i) > 0) <=> (push2(i) < 0)
               /\ \A i \in 1..(n - 2) : (push1(i) > 0) <=> (push1(i + 1) < 0)

C18_Witness ==
    /\ jlMounted
    /\ Len(jlPoints) = 3
    /\ Len(jlSvg) = 1
    /\ Len(jlSvg[1].curves) = 2
    /\ jlSvg[1].curves[1].c1.x < 0
    /\ jlSvg[1].curves[2].c1.x > 400
    /\ jlSvg[1].curves[2].to = [x |-> -200, y |-> 80]

(***************************************************************************)
(* Further properties of the DoodlePad                                     *)
(***************************************************************************)

\* C23: while a drag is in progress (isDrawing is true) the stroke sequence
\* is non-empty, whatever the order of mouse-down, mouse-move, mouse-up,
\* mouse-leave, tool switch and Clear.
C23_DragHasLastStroke ==
    (~padCrashed /\ padIsDrawing) => Len(padStrokes) > 0

\* C24: a mouse-move leaves the stroke sequence that was the state before it
\* (and was passed to onStrokesChange) reading as it read before the move.
C24_PublishedStrokesKept ==
    [][ \A p \in PadPoints : \A n \in UpdaterInvocations :
            (handleMouseMove(p) /\ padIsDrawing /\ Len(padStrokes) > 0
                /\ padStrokes' = MouseMoveUpdater(padStrokes, p, n))
            => PrevStrokesAfterMove(padStrokes, p, n) = padStrokes ]_vars

\* C28: a mounted JourneyLine whose points list has fewer than two entries
\* shows no line, also after the list shrank from two or more points.
C28_NoLineBelowTwoPoints ==
    (jlMounted /\ Len(jlPoints) < 2) => jlSvg = <<>>


\* C25: once a TapedBox is unmounted, no setSize call is made on it and its
\* size state stays as it was at the unmount, also when an animation frame
\* requested before the unmount (by the first or by a later run of the
\* effect) fires afterwards.
C25_NoSizeUpdateAfterUnmount ==
    /\ [](tbLateUpdates = 0)
    /\ [][(~tbMounted /\ ~tbMounted') => tbSize' = tbSize]_vars

\* An unmounted box whose pending animation frame has just fired, after the
\* box had been measured with a non-zero size.
C25_Witness ==
    /\ ~tbMounted
    /\ tbLastEvent = "staleFrame"
    /\ tbSize.width > 0
    /\ tbStaleFrames > 0


\* C26: the SVG of a mounted Tape, SketchyRectangle or StickyTape holds
\* exactly one shape, the one the draw effect makes from the current props,
\* theme, tape colour and seed, whatever redraws came before.
C26_OneShapeTheLatest ==
    svKind # "none" =>
        svChildren = <<ShapeOf(svKind, svProps, svTheme, svTapeColor, svSeed)>>

\* A rectangle redrawn by two seed ticks, under another theme and with other
\* props than the ones it was mounted with.
C26_Witness ==
    /\ svKind = "SketchyRectangle"
    /\ svSeed = 2
    /\ svTheme = "dark"
    /\ svProps = [width |-> 10, height |-> 6, borderRadius |-> 1, strokeWidth |-> 1]
    /\ Len(svChildren) = 1

\* C29: in the outline a SketchyRectangle draws, every straight edge runs
\* forwards: the top edge from x + r to x + w - r with x + r <= x + w - r,
\* and the right edge from y + r to y + h - r with y + r <= y + h - r.
C29_RadiusWithinInsetBox ==
    (svKind = "SketchyRectangle" /\ Len(svChildren) = 1) =>
        LET path == svChildren[1].path
        IN  /\ path[1].to[1] <= path[2].to[1]
            /\ path[3].to[2] <= path[4].to[2]


\* C21: a draw of a SketchyBackground (from the ResizeObserver or from the
\* interval) while the <svg> has client width 0 or client height 0 leaves
\* the children of the <svg> exactly as they were.
C21_ZeroSizeDrawKeepsChildren ==
    [][ (bkLastEvent' \in DrawTriggers /\ (bkClient[1] = 0 \/ bkClient[2] = 0))
            => bkChildren' = bkChildren ]_vars

\* A draw was just triggered on a background that had been drawn at a
\* non-zero size and has client height 0 now.
C21_Witness ==
    /\ bkMounted
    /\ bkLastEvent \in DrawTriggers
    /\ bkClient = <<300, 0>>
    /\ bkChildren # <<>>


\* C27: a mounted StickyNote that is rendered with a logoComponent has the
\* dashed circle in its logo <svg>.
C27_LogoCircleDrawn ==
    (lgMounted /\ lgLogo) => \E s \in 0..MaxLogoSeed : lgChildren = <<LogoCircle(s)>>


\* C22: a component that uses useFeebyTheme outside every provider reads
\* the theme 'light' at every render, and none of its setTheme and
\* toggleTheme calls changes localStorage.
C22_NoProviderStaysLight ==
    /\ [](csMounted => csTheme = "light")
    /\ [][csCalls' > csCalls => csStorage' = csStorage]_vars

\* The component has called both functions, the last call a setTheme, with
\* a stored theme 'dark' that it did not write and did not read.
C22_Witness ==
    /\ csMounted
    /\ csCalls = MaxCalls
    /\ csLastCall = "setTheme"
    /\ csStorage["feeby-theme"] = "dark"
    /\ csTheme = "light"

====
